------------------------ MODULE RecommendCoursesProofs -----------------------
(***************************************************************************)
(* Theorems about a request for courses: the registry in which it can be   *)
(* cancelled (RecommendCancel), and the courses that it is answered with   *)
(* (CourseAssembly).                                                       *)
(***************************************************************************)
EXTENDS RecommendCancel, CourseAssembly, FiniteSetTheorems, WellFoundedInduction, TLAPS

(***************************************************************************)
(* The registry, for any number of calls and ids.                          *)
(***************************************************************************)
(* How far the task of a call is follows its handler, and why a task is     *)
(* cancelled is known: its own handler was, or the endpoint asked for it.   *)
TaskInv ==
    \A c \in Calls :
        /\ handler[c] = "new" => task[c] = "none" /\ ~dropped[c] /\ c \notin asked
        /\ handler[c] = "running" => task[c] # "none"
        /\ handler[c] = "running" /\ IdOf[c] = NoId => task[c] \in Live
        /\ task[c] \in {"cancelling", "cancelled"} => dropped[c] \/ c \in asked
        /\ c \in asked => task[c] \in {"cancelling", "cancelled"} /\ IdOf[c] # NoId
        /\ handler[c] = "running" /\ dropped[c] => task[c] # "pending"

(* The latest call of an id has come with it.                               *)
NewestInv == \A i \in Ids : newest[i] # NoCall => IdOf[newest[i]] = i
                                                    /\ handler[newest[i]] # "new"

IndInv == /\ TypeOK /\ TaskInv /\ NewestInv
          /\ RegistryLive /\ NewestCancellable /\ CancellationTold /\ TaskEndsFirst

LEMMA Messages ==
    /\ Message("courses") = "recommend_success"
    /\ Message("empty") = "recommend_not_found"
    /\ Message("failed") = "recommend_failed"
    /\ Message("cancelled") = "recommend_cancel_accepted"
BY DEF Message

LEMMA InitInv == Init => IndInv
BY CancelAssumption
   DEF Init, IndInv, TypeOK, TaskInv, NewestInv, RegistryLive, NewestCancellable,
       CancellationTold, TaskEndsFirst, Live, Results, Replies

LEMMA StepInv == IndInv /\ [Next]_vars => IndInv'
<1> SUFFICES ASSUME IndInv, [Next]_vars PROVE IndInv'
  OBVIOUS
<1> USE CancelAssumption, Messages
<1> USE DEF IndInv, TypeOK, TaskInv, NewestInv, RegistryLive, NewestCancellable,
            CancellationTold, TaskEndsFirst, Live, Results, Replies
<1>1. ASSUME NEW c \in Calls, Enter(c) PROVE IndInv'
  BY <1>1 DEF Enter
<1>2. ASSUME NEW c \in Calls, EnterDirect(c) PROVE IndInv'
  BY <1>2 DEF EnterDirect
<1>3. ASSUME NEW c \in Calls, TaskEnds(c) PROVE IndInv'
  BY <1>3 DEF TaskEnds
<1>4. ASSUME NEW c \in Calls, DirectEnds(c) PROVE IndInv'
  BY <1>4 DEF DirectEnds
<1>5. ASSUME NEW c \in Calls, Resume(c) PROVE IndInv'
  BY <1>5 DEF Resume, Forget, Answer
<1>6. ASSUME NEW c \in Calls, Drop(c) PROVE IndInv'
  BY <1>6 DEF Drop
<1>7. ASSUME NEW i \in Ids, Cancel(i) PROVE IndInv'
  BY <1>7 DEF Cancel
<1>8. CASE UNCHANGED vars
  BY <1>8 DEF vars
<1> QED BY <1>1, <1>2, <1>3, <1>4, <1>5, <1>6, <1>7, <1>8
        DEF Next, CallStep, CancelNothing

LEMMA Invariant == Spec => []IndInv
<1> QED BY InitInv, StepInv, PTL DEF Spec

(* Every variable keeps its type; the registry has at most one entry per id *)
(* (_running is keyed by the request's id).                                 *)
THEOREM TypeCorrect == Spec => []TypeOK
<1>1. IndInv => TypeOK
  BY DEF IndInv
<1> QED BY <1>1, Invariant, PTL

(* For any number of calls and ids, the registry holds only calls that are  *)
(* in progress: the finally block of run_cancellable lets no entry leak.    *)
THEOREM RegistryIsLive == Spec => []RegistryLive
<1>1. IndInv => RegistryLive
  BY DEF IndInv
<1> QED BY <1>1, Invariant, PTL

(* The latest call of an id can be cancelled for as long as it runs, though *)
(* earlier calls of the id end, fail and are cancelled around it.           *)
THEOREM NewestIsCancellable == Spec => []NewestCancellable
<1>1. IndInv => NewestCancellable
  BY DEF IndInv
<1> QED BY <1>1, Invariant, PTL

(* The endpoint's cancellation and that of the handler are told apart in    *)
(* every order in which they and the end of the work happen.                *)
THEOREM CancellationIsTold == Spec => []CancellationTold
<1>1. IndInv => CancellationTold
  BY DEF IndInv
<1> QED BY <1>1, Invariant, PTL

(* No handler ends before the task that run_cancellable made for it; tasks  *)
(* that the work itself has started are not part of this model.             *)
THEOREM TasksEndFirst == Spec => []TaskEndsFirst
<1>1. IndInv => TaskEndsFirst
  BY DEF IndInv
<1> QED BY <1>1, Invariant, PTL

(***************************************************************************)
(* The courses, for any places, requests, answers of the model and answers *)
(* of the map API.                                                         *)
(***************************************************************************)
-----------------------------------------------------------------------------
(* Induction up to n, for a set: what is at 0 and goes on is everywhere.    *)
LEMMA UpTo ==
    ASSUME NEW n \in Nat, NEW S, 0 \in S, \A k \in 1..n : k - 1 \in S => k \in S
    PROVE  \A k \in 0..n : k \in S
  <1> DEFINE Left == {k \in Nat : k =< n /\ k \notin S}
  <1> SUFFICES ASSUME Left # {} PROVE FALSE
    OBVIOUS
  <1>1. Left \subseteq Nat
    OBVIOUS
  <1>2. PICK k \in Left : \A m \in Left : <<m, k>> \notin OpToRel(<, Nat)
    <2> HIDE DEF Left
    <2> QED BY <1>1, NatLessThanWellFounded, WFMin
  <1>3. \A m \in Left : ~ (m < k)
    BY <1>1, <1>2 DEF OpToRel
  <1>4. k # 0 /\ k \in 1..n /\ k - 1 \in Nat /\ k - 1 < k /\ k - 1 =< n
    OBVIOUS
  <1>5. k - 1 \in S
    BY <1>3, <1>4
  <1> QED BY <1>4, <1>5

(* A recursive function exists whose k-th value is in X[k], when the base   *)
(* is in X[0] and each step leads from one of the sets to the next.         *)
Recursive(f, n, base, step) ==
    f = [k \in 0..n |-> IF k = 0 THEN base ELSE step[<<k, f[k - 1]>>]]

LEMMA RecursionIn ==
    ASSUME NEW n \in Nat, NEW X, NEW base \in X[0], NEW step,
           \A k \in 1..n : \A x \in X[k - 1] : step[<<k, x>>] \in X[k]
    PROVE  \E f : Recursive(f, n, base, step) /\ \A k \in 0..n : f[k] \in X[k]
  <1> DEFINE S == {k \in 0..n : \E f : Recursive(f, k, base, step) /\ \A j \in 0..k : f[j] \in X[j]}
  <1>1. 0 \in S
    <2> DEFINE f == [k \in 0..0 |-> base]
    <2>1. Recursive(f, 0, base, step) /\ \A j \in 0..0 : f[j] \in X[j]
      BY DEF Recursive
    <2> QED BY <2>1
  <1>2. ASSUME NEW m \in 1..n, m - 1 \in S PROVE m \in S
    <2>1. PICK f : Recursive(f, m - 1, base, step) /\ \A j \in 0..(m - 1) : f[j] \in X[j]
      BY <1>2
    <2>2. m - 1 \in 0..(m - 1) /\ m \in 0..n /\ m \in Nat /\ m # 0
          /\ \A k \in 0..m : (k # m => k \in 0..(m - 1)) /\ (k # m /\ k # 0 => k - 1 \in 0..m /\ k - 1 # m)
      OBVIOUS
    <2>3. PICK last : last = step[<<m, f[m - 1]>>]
      OBVIOUS
    <2> DEFINE g == [k \in 0..m |-> IF k = m THEN last ELSE f[k]]
    <2>4. last \in X[m]
      BY <2>1, <2>2, <2>3
    <2>5. \A j \in 0..m : g[j] \in X[j]
      BY <2>1, <2>2, <2>4
    <2>6. \A k \in 0..(m - 1) : f[k] = IF k = 0 THEN base ELSE step[<<k, f[k - 1]>>]
      BY <2>1 DEF Recursive
    <2>7. ASSUME NEW k \in 0..m
          PROVE  g[k] = IF k = 0 THEN base ELSE step[<<k, g[k - 1]>>]
      <3>1. CASE k = m
        <4>1. m - 1 \in 0..m /\ m - 1 # m
          BY <2>2
        <4>2. g[k] = last /\ g[m - 1] = f[m - 1]
          BY <3>1, <4>1
        <4> QED BY <2>2, <2>3, <3>1, <4>2
      <3>2. CASE k # m
        <4>1. k \in 0..(m - 1) /\ g[k] = f[k]
          BY <2>2, <3>2
        <4>2. k # 0 => g[k - 1] = f[k - 1]
          BY <2>2, <3>2
        <4> QED BY <2>6, <4>1, <4>2
      <3> QED BY <3>1, <3>2
    <2>8. Recursive(g, m, base, step)
      BY <2>7 DEF Recursive
    <2> QED BY <2>2, <2>5, <2>8
  <1>3. \A k \in 0..n : k \in S
    <2> HIDE DEF S
    <2> QED BY <1>1, <1>2, UpTo
  <1>4. n \in S
    BY <1>3
  <1> QED BY <1>4

LEMMA RecursionExists ==
    ASSUME NEW n \in Nat, NEW X, NEW base \in X, NEW step \in [(1..n) \X X -> X]
    PROVE  \E f \in [0..n -> X] : Recursive(f, n, base, step)
  <1> DEFINE Y == [k \in 0..n |-> X]
  <1>1. \A k \in 1..n : k \in 0..n /\ k - 1 \in 0..n
    OBVIOUS
  <1>2. base \in Y[0] /\ \A k \in 1..n : \A x \in Y[k - 1] : step[<<k, x>>] \in Y[k]
    BY <1>1
  <1> HIDE DEF Y
  <1>3. PICK f : Recursive(f, n, base, step) /\ \A k \in 0..n : f[k] \in Y[k]
    BY <1>2, RecursionIn
  <1>4. \A k \in 0..n : f[k] \in X
    BY <1>3 DEF Y
  <1>5. f = [k \in 0..n |-> f[k]]
    BY <1>3 DEF Recursive
  <1>6. f \in [0..n -> X]
    BY <1>4, <1>5
  <1> QED BY <1>3, <1>6

-----------------------------------------------------------------------------
LEMMA AppendIs ==
    ASSUME NEW X, NEW s \in Seq(X), NEW x \in X
    PROVE  /\ Append(s, x) \in Seq(X) /\ Len(Append(s, x)) = Len(s) + 1
           /\ Append(s, x)[Len(s) + 1] = x
           /\ \A i \in 1..Len(s) : Append(s, x)[i] = s[i]
           /\ Len(s) \in Nat /\ DOMAIN s = 1..Len(s)
  OBVIOUS

(* Sums of the first n minutes.                                             *)
IsMinutes(m, n) == \A i \in 1..n : m[i] \in Nat
IsSum(f, m, n)  == f = [i \in 0..n |-> IF i = 0 THEN 0 ELSE f[i - 1] + m[i]]

LEMMA SumExists ==
    ASSUME NEW n \in Nat, NEW m, IsMinutes(m, n)
    PROVE  \E f : IsSum(f, m, n)
  <1> DEFINE step == [y \in (1..n) \X Nat |-> y[2] + m[y[1]]]
  <1>1. step \in [(1..n) \X Nat -> Nat]
    BY DEF IsMinutes
  <1>2. PICK f \in [0..n -> Nat] : Recursive(f, n, 0, step)
    <2> HIDE DEF step
    <2> QED BY <1>1, RecursionExists
  <1>3. ASSUME NEW i \in 0..n PROVE f[i] = IF i = 0 THEN 0 ELSE f[i - 1] + m[i]
    <2>1. f[i] = IF i = 0 THEN 0 ELSE step[<<i, f[i - 1]>>]
      BY <1>2 DEF Recursive
    <2>2. i # 0 => i \in 1..n /\ i - 1 \in 0..n
      OBVIOUS
    <2> QED BY <2>1, <2>2
  <1> QED BY <1>3 DEF IsSum

LEMMA SumsAgree ==
    ASSUME NEW n \in Nat, NEW k \in 0..n, NEW m, IsMinutes(m, n),
           NEW f, IsSum(f, m, n), NEW g, IsSum(g, m, k)
    PROVE  \A i \in 0..k : g[i] = f[i] /\ f[i] \in Nat
  <1> DEFINE S == {i \in 0..k : g[i] = f[i] /\ f[i] \in Nat}
  <1>1. \A i \in 0..k : i \in 0..n /\ g[i] = (IF i = 0 THEN 0 ELSE g[i - 1] + m[i])
                       /\ f[i] = (IF i = 0 THEN 0 ELSE f[i - 1] + m[i])
    BY DEF IsSum
  <1>2. 0 \in S
    BY <1>1
  <1>3. ASSUME NEW i \in 1..k, i - 1 \in S PROVE i \in S
    <2>1. m[i] \in Nat /\ i \in 0..k /\ i # 0
      BY DEF IsMinutes
    <2> QED BY <1>1, <1>3, <2>1
  <1>4. \A i \in 0..k : i \in S
    <2> HIDE DEF S
    <2> QED BY <1>2, <1>3, UpTo
  <1> QED BY <1>4

LEMMA TotalNext ==
    ASSUME NEW n \in Nat, NEW m, IsMinutes(m, n)
    PROVE  /\ Total(n, m) \in Nat
           /\ Total(n, m) = IF n = 0 THEN 0 ELSE Total(n - 1, m) + m[n]
  <1>1. \A k : Total(k, m) = (CHOOSE f : IsSum(f, m, k))[k]
    BY Zenon DEF Total, IsSum
  <1>2. PICK f : f = CHOOSE g : IsSum(g, m, n)
    OBVIOUS
  <1>3. IsSum(f, m, n)
    BY <1>2, SumExists
  <1>4. Total(n, m) = f[n] /\ f[n] \in Nat
    <2>1. f[n] \in Nat
      BY <1>3, SumsAgree
    <2> QED BY <1>1, <1>2, <2>1
  <1>5. f[n] = IF n = 0 THEN 0 ELSE f[n - 1] + m[n]
    BY <1>3 DEF IsSum
  <1>6. CASE n = 0
    BY <1>4, <1>5, <1>6
  <1>7. CASE n # 0
    <2>1. n - 1 \in Nat /\ n - 1 \in 0..n /\ IsMinutes(m, n - 1)
      BY <1>7 DEF IsMinutes
    <2>2. PICK g : g = CHOOSE h : IsSum(h, m, n - 1)
      OBVIOUS
    <2>3. IsSum(g, m, n - 1)
      BY <2>1, <2>2, SumExists
    <2>4. n - 1 \in 0..(n - 1)
      BY <2>1
    <2>5. g[n - 1] = f[n - 1]
      BY <1>3, <2>1, <2>3, <2>4, SumsAgree
    <2>6. Total(n - 1, m) = g[n - 1]
      BY <1>1, <2>2
    <2> QED BY <1>4, <1>5, <1>7, <2>5, <2>6
  <1> QED BY <1>6, <1>7

(* Sums of the same minutes are the same, of fewer minutes not more, and    *)
(* sums of sums add up.                                                     *)
LEMMA TotalCompare ==
    ASSUME NEW n \in Nat, NEW m, IsMinutes(m, n), NEW h, IsMinutes(h, n)
    PROVE  /\ (\A i \in 1..n : m[i] = h[i]) => Total(n, m) = Total(n, h)
           /\ (\A i \in 1..n : m[i] =< h[i]) => Total(n, m) =< Total(n, h)
  <1> DEFINE S == {k \in 0..n : ((\A i \in 1..n : m[i] = h[i]) => Total(k, m) = Total(k, h))
                               /\ ((\A i \in 1..n : m[i] =< h[i]) => Total(k, m) =< Total(k, h))}
  <1>1. \A k \in 0..n : IsMinutes(m, k) /\ IsMinutes(h, k) /\ k \in Nat
    BY DEF IsMinutes
  <1>2. 0 \in S
    BY <1>1, TotalNext
  <1>3. ASSUME NEW k \in 1..n, k - 1 \in S PROVE k \in S
    <2>1. k \in 0..n /\ k - 1 \in 0..n /\ k # 0 /\ m[k] \in Nat /\ h[k] \in Nat
      BY DEF IsMinutes
    <2>2. Total(k, m) = Total(k - 1, m) + m[k] /\ Total(k, h) = Total(k - 1, h) + h[k]
          /\ Total(k - 1, m) \in Nat /\ Total(k - 1, h) \in Nat
      BY <1>1, <2>1, TotalNext
    <2> QED BY <1>3, <2>1, <2>2
  <1>4. \A k \in 0..n : k \in S
    <2> HIDE DEF S
    <2> QED BY <1>2, <1>3, UpTo
  <1>5. n \in S
    BY <1>4
  <1> QED BY <1>5

LEMMA TotalAdds ==
    ASSUME NEW n \in Nat, NEW m, IsMinutes(m, n), NEW h, IsMinutes(h, n), NEW b,
           \A i \in 1..n : b[i] = m[i] + h[i]
    PROVE  Total(n, b) = Total(n, m) + Total(n, h)
  <1> DEFINE S == {k \in 0..n : Total(k, b) = Total(k, m) + Total(k, h)}
  <1>1. \A k \in 0..n : IsMinutes(m, k) /\ IsMinutes(h, k) /\ IsMinutes(b, k) /\ k \in Nat
    BY DEF IsMinutes
  <1>2. 0 \in S
    BY <1>1, TotalNext
  <1>3. ASSUME NEW k \in 1..n, k - 1 \in S PROVE k \in S
    <2>1. k \in 0..n /\ k - 1 \in 0..n /\ k # 0 /\ m[k] \in Nat /\ h[k] \in Nat /\ b[k] = m[k] + h[k]
      BY DEF IsMinutes
    <2>2. Total(k, m) = Total(k - 1, m) + m[k] /\ Total(k, h) = Total(k - 1, h) + h[k]
          /\ Total(k, b) = Total(k - 1, b) + b[k]
          /\ Total(k - 1, m) \in Nat /\ Total(k - 1, h) \in Nat
      BY <1>1, <2>1, TotalNext
    <2> QED BY <1>3, <2>1, <2>2
  <1>4. \A k \in 0..n : k \in S
    <2> HIDE DEF S
    <2> QED BY <1>2, <1>3, UpTo
  <1>5. n \in S
    BY <1>4
  <1> QED BY <1>5

-----------------------------------------------------------------------------
(* The builder: what its operators are given and return.                    *)
PickSeqs == Seq(PickType)
Limits   == Nat \cup {None}

LEMMA PickSeqIs ==
    ASSUME NEW p \in PickSeqs
    PROVE  /\ Len(p) \in Nat /\ DOMAIN p = 1..Len(p)
           /\ \A i \in 1..Len(p) : p[i] \in PickType /\ p[i].stay \in Nat /\ p[i].place \in Places
  <1>1. Len(p) \in Nat /\ DOMAIN p = 1..Len(p) /\ \A i \in 1..Len(p) : p[i] \in PickType
    BY DEF PickSeqs
  <1>2. \A x \in PickType : x.stay \in Nat /\ x.place \in Places
    BY DEF PickType
  <1> QED BY <1>1, <1>2

LEMMA Minimum ==
    ASSUME NEW a \in Int, NEW b \in Int
    PROVE  Min({a, b}) = IF a =< b THEN a ELSE b
  BY DEF Min

LEMMA Estimated ==
    ASSUME NEW a \in Int, NEW b \in Int
    PROVE  EstimateMinutes(a, b) \in Nat /\ Distance(a, b) \in Nat
  <1>1. Distance(a, b) \in Nat
    BY DEF Distance
  <1> DEFINE pace == IF NeedsMapApi(a, b) THEN DrivePerMin ELSE WalkPerMin
             rounded == (26 * Distance(a, b) + 10 * pace) \div (20 * pace)
  <1>2. pace \in {67, 333}
    BY DEF DrivePerMin, WalkPerMin
  <1>3. rounded \in Int
    <2> HIDE DEF pace
    <2>1. 20 * pace \in Nat /\ 20 * pace > 0 /\ 26 * Distance(a, b) + 10 * pace \in Int
      BY <1>1, <1>2
    <2> QED BY <2>1
  <1> HIDE DEF rounded
  <1>4. Max({1, rounded}) = IF rounded > 1 THEN rounded ELSE 1
    BY <1>3 DEF Max
  <1>5. EstimateMinutes(a, b) = IF a = b THEN 0 ELSE Max({1, rounded})
    BY DEF EstimateMinutes, rounded
  <1> QED BY <1>1, <1>3, <1>4, <1>5

(* The largest n that is fit for the time.                                  *)
LEMMA Maximum ==
    ASSUME NEW n \in Nat, NEW S, S \subseteq 0..n, S # {}
    PROVE  Max(S) \in S /\ \A x \in S : x =< Max(S)
  <1> DEFINE Bounds == {b \in Nat : \A x \in S : x =< b}
  <1>1. Bounds \subseteq Nat /\ n \in Bounds
    OBVIOUS
  <1>2. PICK b \in Bounds : \A c \in Bounds : <<c, b>> \notin OpToRel(<, Nat)
    <2> HIDE DEF Bounds
    <2> QED BY <1>1, NatLessThanWellFounded, WFMin
  <1>3. \A c \in Bounds : ~ (c < b)
    BY <1>1, <1>2 DEF OpToRel
  <1>4. b \in Nat /\ \A x \in S : x =< b
    OBVIOUS
  <1>5. b \in S
    <2> SUFFICES ASSUME b \notin S PROVE FALSE
      OBVIOUS
    <2>1. \A x \in S : x \in Nat /\ x < b
      BY <1>4
    <2>2. b # 0
      <3>1. PICK x \in S : TRUE
        OBVIOUS
      <3> QED BY <2>1, <3>1
    <2>3. b - 1 \in Bounds /\ b - 1 < b
      BY <1>4, <2>1, <2>2
    <2> QED BY <1>3, <2>3
  <1>6. \E x \in S : \A y \in S : x >= y
    BY <1>4, <1>5
  <1> QED BY <1>6, <1>4 DEF Max

LEMMA DurationNext ==
    ASSUME NEW p \in PickSeqs, NEW travel \in [1..Len(p) -> Nat], NEW n \in 0..Len(p)
    PROVE  /\ Duration(n, p, travel) \in Nat
           /\ Duration(n, p, travel) =
                IF n = 0 THEN 0 ELSE Duration(n - 1, p, travel) + travel[n] + p[n].stay
  <1>1. Len(p) \in Nat /\ DOMAIN p = 1..Len(p) /\ \A i \in 1..Len(p) : p[i] \in PickType
    BY DEF PickSeqs
  <1>2. \A i \in 1..Len(p) : StaysOf(p)[i] = p[i].stay /\ p[i].stay \in Nat
    BY <1>1 DEF StaysOf, PickType
  <1>3. n \in Nat /\ IsMinutes(travel, n) /\ IsMinutes(StaysOf(p), n)
    BY <1>1, <1>2 DEF IsMinutes
  <1>4. n # 0 => n - 1 \in Nat /\ IsMinutes(travel, n - 1) /\ IsMinutes(StaysOf(p), n - 1) /\ n \in 1..Len(p)
    BY <1>1, <1>3 DEF IsMinutes
  <1>5. /\ Total(n, travel) \in Nat /\ Total(n, StaysOf(p)) \in Nat
        /\ Total(n, travel) = IF n = 0 THEN 0 ELSE Total(n - 1, travel) + travel[n]
    BY <1>3, TotalNext
  <1>6. Total(n, StaysOf(p)) = IF n = 0 THEN 0 ELSE Total(n - 1, StaysOf(p)) + StaysOf(p)[n]
    BY <1>3, TotalNext
  <1>7. n # 0 => Total(n - 1, travel) \in Nat /\ Total(n - 1, StaysOf(p)) \in Nat
    BY <1>4, TotalNext
  <1>8. n # 0 => travel[n] \in Nat
    BY <1>4
  <1> QED BY <1>2, <1>4, <1>5, <1>6, <1>7, <1>8 DEF Duration

LEMMA FittingIs ==
    ASSUME NEW p \in PickSeqs, NEW travel \in [1..Len(p) -> Nat], NEW available \in Limits
    PROVE  LET n == Fitting(p, travel, available) IN
           /\ n \in 0..Len(p)
           /\ n # 0 /\ available # None => Duration(n, p, travel) =< available
           /\ n < Len(p) => available # None /\ Duration(n + 1, p, travel) > available
           /\ available = None => n = Len(p)
           /\ \A m \in 1..Len(p) :
                 available = None \/ Duration(m, p, travel) =< available => m =< n
  <1> DEFINE Fit == {n \in DOMAIN p : available = None \/ Duration(n, p, travel) =< available}
             n   == Fitting(p, travel, available)
  <1>1. Len(p) \in Nat /\ DOMAIN p = 1..Len(p)
    BY DEF PickSeqs
  <1>2. {0} \cup Fit \subseteq 0..Len(p)
    BY <1>1
  <1>3. n = Max({0} \cup Fit)
    BY DEF Fitting
  <1> HIDE DEF n
  <1>4. n \in {0} \cup Fit /\ \A x \in {0} \cup Fit : x =< n
    <2> HIDE DEF Fit
    <2> QED BY <1>1, <1>2, <1>3, Maximum
  <1>5. n \in 0..Len(p)
    BY <1>2, <1>4
  <1>6. n # 0 /\ available # None => Duration(n, p, travel) =< available
    BY <1>4
  <1>7. ASSUME n < Len(p) PROVE available # None /\ Duration(n + 1, p, travel) > available
    <2>1. n + 1 \in 1..Len(p) /\ n + 1 \in 0..Len(p) /\ ~ (n + 1 =< n)
      BY <1>1, <1>5, <1>7
    <2>2. n + 1 \notin Fit
      BY <1>4, <2>1
    <2>3. Duration(n + 1, p, travel) \in Nat
      BY <2>1, DurationNext
    <2> QED BY <1>1, <2>1, <2>2, <2>3 DEF Limits
  <1>8. available = None => n = Len(p)
    <2> HIDE DEF Fit
    <2>1. n \in Int /\ n =< Len(p) /\ Len(p) \in Int
      BY <1>1, <1>5
    <2>2. n < Len(p) \/ n = Len(p)
      BY <2>1
    <2> QED BY <1>7, <2>2
  <1>9. \A m \in 1..Len(p) : (available = None \/ Duration(m, p, travel) =< available) => m =< n
    BY <1>1, <1>4
  <1> QED BY <1>5, <1>6, <1>7, <1>8, <1>9 DEF n

(* A course that was built: its places in order, its clock, and its cut.    *)
Stop(p, travel, visit, i) ==
    [place |-> p[i].place, travel |-> travel[i],
     arrival |-> (StartMinutes(visit) + Duration(i, p, travel) - p[i].stay) % Day,
     stay |-> p[i].stay]

LEMMA StopIs ==
    ASSUME NEW p \in PickSeqs, NEW travel \in [1..Len(p) -> Nat], NEW visit \in Limits,
           NEW i \in 1..Len(p)
    PROVE  /\ Stop(p, travel, visit, i) \in Stops
           /\ i = 1 => Stop(p, travel, visit, i).arrival = (StartMinutes(visit) + travel[1]) % Day
           /\ i # 1 => Stop(p, travel, visit, i).arrival =
                (Stop(p, travel, visit, i - 1).arrival + p[i - 1].stay + travel[i]) % Day
  <1> DEFINE start == StartMinutes(visit)
             Arrive(j) == start + Duration(j, p, travel) - p[j].stay
  <1>1. start \in Nat
    BY DEF StartMinutes, DefaultStart, Limits
  <1>2. /\ Len(p) \in Nat
        /\ \A j \in 1..Len(p) : p[j].stay \in Nat /\ p[j].place \in Places /\ travel[j] \in Nat
    BY PickSeqIs
  <1> HIDE DEF start
  <1>3. ASSUME NEW j \in 1..Len(p)
        PROVE  /\ Arrive(j) = start + Duration(j - 1, p, travel) + travel[j]
               /\ Arrive(j) \in Nat
               /\ Duration(j, p, travel) = Duration(j - 1, p, travel) + travel[j] + p[j].stay
               /\ Duration(j - 1, p, travel) \in Nat
               /\ Stop(p, travel, visit, j).arrival = Arrive(j) % Day
    <2>1. j \in 0..Len(p) /\ j # 0 /\ j - 1 \in 0..Len(p)
      BY <1>2
    <2>2. Duration(j, p, travel) = Duration(j - 1, p, travel) + travel[j] + p[j].stay
      BY <2>1, DurationNext
    <2>3. Duration(j - 1, p, travel) \in Nat
      BY <2>1, DurationNext
    <2>4. travel[j] \in Nat /\ p[j].stay \in Nat
      BY <1>2
    <2>5. Stop(p, travel, visit, j).arrival = Arrive(j) % Day
      BY DEF Stop, start
    <2> QED BY <1>1, <2>2, <2>3, <2>4, <2>5
  <1>4. Stop(p, travel, visit, i) \in Stops
    <2>1. Arrive(i) % Day \in Nat
      BY <1>3 DEF Day
    <2> HIDE DEF Arrive
    <2>2. Stop(p, travel, visit, i).arrival \in Nat
      BY <1>3, <2>1
    <2> QED BY <1>2, <2>2 DEF Stop, Stops
  <1>5. CASE i = 1
    <2>1. Duration(0, p, travel) = 0
      BY <1>2, DurationNext
    <2>2. Arrive(1) = start + travel[1]
      BY <1>1, <1>2, <1>3, <1>5, <2>1
    <2>3. Stop(p, travel, visit, 1).arrival = (start + travel[1]) % Day
      BY <1>3, <1>5, <2>2
    <2> QED BY <1>4, <1>5, <2>3 DEF start
  <1>6. CASE i # 1
    <2>1. i - 1 \in 1..Len(p)
      BY <1>2, <1>6
    <2> DEFINE a == Arrive(i - 1)
    <2>2. a \in Nat /\ p[i - 1].stay \in Nat /\ travel[i] \in Nat
      BY <1>2, <1>3, <2>1
    <2>3. Arrive(i) = a + p[i - 1].stay + travel[i]
      <3>1. Arrive(i) = start + Duration(i - 1, p, travel) + travel[i]
        BY <1>3
      <3>2. /\ a = start + Duration((i - 1) - 1, p, travel) + travel[i - 1]
            /\ Duration(i - 1, p, travel) =
                 Duration((i - 1) - 1, p, travel) + travel[i - 1] + p[i - 1].stay
            /\ Duration((i - 1) - 1, p, travel) \in Nat /\ travel[i - 1] \in Nat
        BY <1>2, <1>3, <2>1
      <3> HIDE DEF a
      <3> QED BY <1>1, <2>2, <3>1, <3>2
    <2>4. Stop(p, travel, visit, i - 1).arrival = a % Day
      BY <1>3, <2>1
    <2>5. Stop(p, travel, visit, i).arrival = Arrive(i) % Day
      BY <1>3
    <2> HIDE DEF a
    <2>6. (a + p[i - 1].stay + travel[i]) % Day = ((a % Day) + p[i - 1].stay + travel[i]) % Day
      BY <2>2 DEF Day
    <2>7. Stop(p, travel, visit, i).arrival =
            (Stop(p, travel, visit, i - 1).arrival + p[i - 1].stay + travel[i]) % Day
      BY <2>3, <2>4, <2>5, <2>6
    <2> QED BY <1>4, <1>6, <2>7
  <1> QED BY <1>5, <1>6

LEMMA BuiltIs ==
    ASSUME NEW p \in PickSeqs, NEW travel \in [1..Len(p) -> Nat], NEW visit \in Limits,
           NEW available \in Limits
    PROVE  LET n == Fitting(p, travel, available)
               c == BuildCourse(p, travel, visit, available)
           IN  /\ n = 0 <=> c = None
               /\ n # 0 => /\ c = [places |-> [i \in 1..n |-> Stop(p, travel, visit, i)],
                                  total  |-> Duration(n, p, travel)]
                           /\ Len(c.places) = n
                           /\ DOMAIN c.places = 1..n
  <1> DEFINE n == Fitting(p, travel, available)
             stops == [i \in 1..n |-> Stop(p, travel, visit, i)]
             c == BuildCourse(p, travel, visit, available)
  <1>1. n \in 0..Len(p) /\ Len(p) \in Nat
    BY FittingIs DEF PickSeqs
  <1>2. n = 0 => c = None
    BY DEF BuildCourse
  <1>3. n # 0 => c = [places |-> stops, total |-> Duration(n, p, travel)]
    BY DEF BuildCourse, Stop
  <1> HIDE DEF n, c
  <1>4. stops \in Seq(Stops) /\ Len(stops) = n /\ DOMAIN stops = 1..n
    <2>1. \A i \in 1..n : Stop(p, travel, visit, i) \in Stops
      BY <1>1, StopIs
    <2> QED BY <1>1, <2>1
  <1>5. [places |-> stops, total |-> Duration(n, p, travel)] \in Courses
    <2>1. Duration(n, p, travel) \in Nat
      BY <1>1, DurationNext
    <2> HIDE DEF stops
    <2> QED BY <1>4, <2>1 DEF Courses
  <1>6. n # 0 => c # None
    BY <1>3, <1>5, BuilderAssumption
  <1>7. n # 0 => /\ c = [places |-> stops, total |-> Duration(n, p, travel)]
                /\ Len(c.places) = n /\ DOMAIN c.places = 1..n
    <2> HIDE DEF stops
    <2> QED BY <1>3, <1>4
  <1>8. n = 0 <=> c = None
    BY <1>2, <1>6
  <1> QED BY <1>7, <1>8 DEF n, c

LEMMA TotalOfCourse ==
    ASSUME NEW p \in PickSeqs, NEW travel \in [1..Len(p) -> Nat], NEW n \in 0..Len(p),
           NEW takes, \A i \in 1..n : takes[i] = travel[i] + p[i].stay
    PROVE  Duration(n, p, travel) = Total(n, takes)
  <1>1. n \in Nat /\ IsMinutes(travel, n) /\ IsMinutes(StaysOf(p), n)
        /\ \A i \in 1..n : StaysOf(p)[i] = p[i].stay
    BY PickSeqIs DEF IsMinutes, StaysOf
  <1>2. \A i \in 1..n : takes[i] = travel[i] + StaysOf(p)[i]
    BY <1>1
  <1> QED BY <1>1, <1>2, TotalAdds DEF Duration

-----------------------------------------------------------------------------
(* What the variables hold.                                                 *)
Statuses == Failures \cup {"running", "no_route", "stopping", "cancelled"}

LegInv ==
    \A l \in DOMAIN leg :
        /\ leg[l].is \in Statuses \cup {"route"}
        /\ leg[l].is = "route" => leg[l].minutes \in Nat

TypeInv ==
    /\ req \in Requests /\ drafted \in {"nobody", "model", "rules"}
    /\ plans \in Seq(PickSeqs)
    /\ phase \in {"compose", "travel", "answered", "interrupted"}
    /\ LegInv

LEMMA RequestIs ==
    ASSUME TypeInv
    PROVE  /\ req.ranked \in Seq(Places) /\ IsInjective(req.ranked)
           /\ req.origin \in Int \cup {None} /\ req.available \in Limits /\ req.visit \in Limits
  BY AssemblyAssumption DEF TypeInv, Limits

LEMMA LegIs ==
    ASSUME TypeInv, NEW p \in PickSeqs
    PROVE  /\ DOMAIN Legs(p, req.origin) = 1..Len(p)
           /\ \A i \in 1..Len(p) :
                LET l == Legs(p, req.origin)[i] IN
                \/ i = 1 /\ req.origin = None /\ l = None
                \/ /\ i > 1 \/ req.origin # None
                   /\ l = <<IF i = 1 THEN req.origin ELSE Coord[p[i - 1].place], Coord[p[i].place]>>
                   /\ l \in Int \X Int /\ l # None
  <1>1. /\ Len(p) \in Nat /\ DOMAIN p = 1..Len(p)
        /\ \A i \in 1..Len(p) : Coord[p[i].place] \in Int
    BY PickSeqIs, BuilderAssumption
  <1>2. DOMAIN Legs(p, req.origin) = 1..Len(p)
    BY <1>1 DEF Legs
  <1>3. ASSUME NEW i \in 1..Len(p)
        PROVE  LET l == Legs(p, req.origin)[i] IN
                \/ i = 1 /\ req.origin = None /\ l = None
                \/ /\ i > 1 \/ req.origin # None
                   /\ l = <<IF i = 1 THEN req.origin ELSE Coord[p[i - 1].place], Coord[p[i].place]>>
                   /\ l \in Int \X Int /\ l # None
    <2> DEFINE l == Legs(p, req.origin)[i]
    <2>1. \A a, b \in Int : <<a, b>> \in Int \X Int /\ <<a, b>> # None
      BY BuilderAssumption
    <2>2. CASE i > 1
      <3>1. l = <<Coord[p[i - 1].place], Coord[p[i].place]>>
        BY <1>1, <2>2 DEF Legs
      <3>2. i - 1 \in 1..Len(p) /\ i # 1
        BY <1>1, <2>2
      <3> HIDE DEF l
      <3>3. l \in Int \X Int /\ l # None
        BY <1>1, <2>1, <3>1, <3>2
      <3> QED BY <2>2, <3>1, <3>2, <3>3 DEF l
    <2>3. CASE i = 1 /\ req.origin = None
      BY <1>1, <2>3 DEF Legs
    <2>4. CASE i = 1 /\ req.origin # None
      <3>1. l = <<req.origin, Coord[p[i].place]>>
        BY <1>1, <2>4 DEF Legs
      <3>2. req.origin \in Int
        BY <2>4, RequestIs
      <3> HIDE DEF l
      <3>3. l \in Int \X Int /\ l # None
        BY <1>1, <2>1, <3>1, <3>2
      <3> QED BY <2>4, <3>1, <3>3 DEF l
    <2>5. i > 1 \/ i = 1
      BY <1>1
    <2> QED BY <2>2, <2>3, <2>4, <2>5
  <1> QED BY <1>2, <1>3

LEMMA MinutesAre ==
    ASSUME TypeInv, NEW l \in Int \X Int
    PROVE  Minutes(l) \in Nat
  <1>1. EstimateMinutes(l[1], l[2]) \in Nat
    BY Estimated
  <1>2. Routed(l) => leg[l].minutes \in Nat
    BY DEF Routed, TypeInv, LegInv
  <1> QED BY <1>1, <1>2 DEF Minutes

LEMMA TravelIs ==
    ASSUME TypeInv, NEW p \in PickSeqs
    PROVE  /\ TravelTimes(p) \in [1..Len(p) -> Nat]
           /\ \A i \in 1..Len(p) : TravelTimes(p)[i] =
                LET l == Legs(p, req.origin)[i] IN IF l = None THEN 0 ELSE Minutes(l)
  <1> DEFINE legs == Legs(p, req.origin)
  <1>1. DOMAIN legs = 1..Len(p)
    BY LegIs
  <1>2. TravelTimes(p) = [i \in 1..Len(p) |-> IF legs[i] = None THEN 0 ELSE Minutes(legs[i])]
    BY <1>1 DEF TravelTimes
  <1>3. ASSUME NEW i \in 1..Len(p) PROVE legs[i] = None \/ Minutes(legs[i]) \in Nat
    <2>1. legs[i] = None \/ legs[i] \in Int \X Int
      BY LegIs
    <2> HIDE DEF legs
    <2> QED BY <2>1, MinutesAre
  <1> HIDE DEF legs
  <1> QED BY <1>2, <1>3 DEF legs

(* What is built of a plan, in the terms of the properties.                 *)
LEMMA BuiltFits ==
    ASSUME TypeInv, NEW plan \in DOMAIN plans, Built(plan) # None
    PROVE  LET c == Built(plan)
               p == plans[plan]
               n == Len(c.places)
               takes == [i \in 1..n |-> c.places[i].travel + c.places[i].stay]
           IN  /\ n \in 1..Len(p) /\ DOMAIN c.places = 1..n
               /\ \A i \in 1..n : c.places[i].place = p[i].place /\ c.places[i].stay = p[i].stay
               /\ \A i \in 1..n : c.places[i].travel = TravelTimes(p)[i]
               /\ c.total = Total(n, takes)
               /\ c.places[1].arrival = (StartMinutes(req.visit) + c.places[1].travel) % Day
               /\ \A i \in 2..n :
                     c.places[i].arrival =
                       (c.places[i - 1].arrival + c.places[i - 1].stay + c.places[i].travel) % Day
               /\ req.available # None => c.total =< req.available
               /\ n < Len(p) => /\ req.available # None
                                /\ c.total + Minutes(Legs(p, req.origin)[n + 1]) + p[n + 1].stay
                                      > req.available
  <1> DEFINE p == plans[plan]
             travel == TravelTimes(p)
             n == Fitting(p, travel, req.available)
             c == Built(plan)
             stop(i) == Stop(p, travel, req.visit, i)
             takes == [i \in 1..n |-> c.places[i].travel + c.places[i].stay]
  <1>1. p \in PickSeqs /\ req.available \in Limits /\ req.visit \in Limits
    BY RequestIs DEF TypeInv
  <1>2. c = BuildCourse(p, travel, req.visit, req.available)
    BY DEF Built
  <1>3. travel \in [1..Len(p) -> Nat]
    BY <1>1, TravelIs
  <1> HIDE DEF p
  <1>4. Len(p) \in Nat /\ \A i \in 1..Len(p) : p[i].stay \in Nat
    BY <1>1, PickSeqIs
  <1> HIDE DEF travel
  <1>5. n = 0 <=> c = None
    BY <1>1, <1>2, <1>3, BuiltIs
  <1>6. n # 0 => /\ c = [places |-> [i \in 1..n |-> stop(i)], total |-> Duration(n, p, travel)]
                /\ Len(c.places) = n /\ DOMAIN c.places = 1..n
    BY <1>1, <1>2, <1>3, BuiltIs
  <1>7. /\ n \in 0..Len(p)
        /\ n # 0 /\ req.available # None => Duration(n, p, travel) =< req.available
        /\ n < Len(p) => req.available # None /\ Duration(n + 1, p, travel) > req.available
    BY <1>1, <1>3, FittingIs
  <1>8. c # None
    OBVIOUS
  <1> HIDE DEF n, c
  <1>9. /\ n \in 1..Len(p) /\ Len(c.places) = n /\ DOMAIN c.places = 1..n
        /\ c.total = Duration(n, p, travel) /\ \A i \in 1..n : c.places[i] = stop(i)
    BY <1>4, <1>5, <1>6, <1>7, <1>8
  <1>10. \A i \in 1..n : /\ c.places[i].place = p[i].place /\ c.places[i].stay = p[i].stay
                        /\ c.places[i].travel = travel[i]
    <2>1. \A i : stop(i).place = p[i].place /\ stop(i).stay = p[i].stay /\ stop(i).travel = travel[i]
      BY DEF Stop
    <2> HIDE DEF stop
    <2> QED BY <1>9, <2>1
  <1>11. c.total = Total(n, takes)
    <2>1. n \in 0..Len(p)
      BY <1>7
    <2>2. \A i \in 1..n : takes[i] = travel[i] + p[i].stay
      BY <1>10
    <2> HIDE DEF takes
    <2> QED BY <1>1, <1>3, <1>9, <2>1, <2>2, TotalOfCourse
  <1>12. c.places[1].arrival = (StartMinutes(req.visit) + c.places[1].travel) % Day
    <2>1. 1 \in 1..n /\ 1 \in 1..Len(p)
      BY <1>4, <1>9
    <2>2. stop(1).arrival = (StartMinutes(req.visit) + travel[1]) % Day
      BY <1>1, <1>3, <2>1, StopIs
    <2> QED BY <1>9, <1>10, <2>1, <2>2
  <1>13. ASSUME NEW i \in 2..n
         PROVE  c.places[i].arrival =
                  (c.places[i - 1].arrival + c.places[i - 1].stay + c.places[i].travel) % Day
    <2>1. i \in 1..n /\ i - 1 \in 1..n /\ i \in 1..Len(p) /\ i # 1
      BY <1>4, <1>9
    <2>2. stop(i).arrival = (stop(i - 1).arrival + p[i - 1].stay + travel[i]) % Day
      BY <1>1, <1>3, <2>1, StopIs
    <2> HIDE DEF stop
    <2> QED BY <1>9, <1>10, <2>1, <2>2
  <1>14. ASSUME n < Len(p)
         PROVE  /\ req.available # None
                /\ c.total + Minutes(Legs(p, req.origin)[n + 1]) + p[n + 1].stay > req.available
    <2>1. n + 1 \in 1..Len(p) /\ n + 1 \in 0..Len(p) /\ n + 1 # 0 /\ (n + 1) - 1 = n /\ n + 1 > 1 /\ n + 1 # 1
      BY <1>4, <1>9, <1>14
    <2>2. Legs(p, req.origin)[n + 1] # None
      BY <1>1, <2>1, LegIs
    <2>3. travel[n + 1] = Minutes(Legs(p, req.origin)[n + 1])
      BY <1>1, <2>1, <2>2, TravelIs DEF travel
    <2>4. Duration(n + 1, p, travel) = Duration(n, p, travel) + travel[n + 1] + p[n + 1].stay
      BY <1>1, <1>3, <2>1, DurationNext
    <2> QED BY <1>7, <1>9, <1>14, <2>3, <2>4
  <1>15. req.available # None => c.total =< req.available
    BY <1>4, <1>7, <1>9
  <1>16. \A i \in 1..n : c.places[i].travel = TravelTimes(p)[i]
    BY <1>10 DEF travel
  <1> QED BY <1>9, <1>10, <1>11, <1>12, <1>13, <1>14, <1>15, <1>16 DEF c, p

-----------------------------------------------------------------------------
(* The choice of courses: what is kept of the first c plans.                *)
Within1(d, e) == PlaceSet(Built(d)) \subseteq PlaceSet(Built(e))

AllNew ==
    \A k \in 1..Len(plans) : /\ Built(k) # None
                             /\ \A j \in 1..Len(plans) : j < k => ~Within1(k, j)

IsKept(f) ==
    f = [c \in 0..Len(plans) |->
           IF c = 0 THEN <<>>
           ELSE IF NewChoice(f[c - 1], c) THEN Append(f[c - 1], c) ELSE f[c - 1]]

KeptInv(s, c) ==
    /\ s \in Seq(1..c)
    /\ \A k \in 1..Len(s) : Built(s[k]) # None
    /\ \A j, k \in 1..Len(s) : j < k => s[j] < s[k] /\ ~Within1(s[k], s[j])
    /\ \A d \in 1..c : Built(d) = None \/ \E k \in 1..Len(s) : Within1(d, s[k])
    /\ AllNew => Len(s) = c /\ \A k \in 1..c : s[k] = k

LEMMA KeptExists ==
    ASSUME Len(plans) \in Nat
    PROVE  \E f : IsKept(f)
  <1> DEFINE n == Len(plans)
             X == Seq(Nat)
             step == [y \in (1..n) \X X |->
                        IF NewChoice(y[2], y[1]) THEN Append(y[2], y[1]) ELSE y[2]]
  <1>1. n \in Nat
    OBVIOUS
  <1> HIDE DEF n
  <1>2. step \in [(1..n) \X X -> X]
    <2>1. ASSUME NEW y \in (1..n) \X X
          PROVE  (IF NewChoice(y[2], y[1]) THEN Append(y[2], y[1]) ELSE y[2]) \in X
      <3>1. y[1] \in Nat /\ y[2] \in Seq(Nat)
        BY <1>1
      <3>2. Append(y[2], y[1]) \in Seq(Nat)
        BY <3>1
      <3> QED BY <3>1, <3>2
    <2> QED BY <2>1
  <1>3. <<>> \in X
    OBVIOUS
  <1>4. PICK f \in [0..n -> X] : Recursive(f, n, <<>>, step)
    <2> HIDE DEF step, X
    <2> QED BY <1>1, <1>2, <1>3, RecursionExists
  <1>5. ASSUME NEW c \in 0..n
        PROVE  f[c] = IF c = 0 THEN <<>>
                      ELSE IF NewChoice(f[c - 1], c) THEN Append(f[c - 1], c) ELSE f[c - 1]
    <2>1. f[c] = IF c = 0 THEN <<>> ELSE step[<<c, f[c - 1]>>]
      BY <1>4 DEF Recursive
    <2>2. c # 0 => c \in 1..n /\ c - 1 \in 0..n
      BY <1>1
    <2>3. c # 0 => <<c, f[c - 1]>> \in (1..n) \X X
      BY <1>4, <2>2
    <2> HIDE DEF X
    <2> QED BY <2>1, <2>3
  <1>6. f = [c \in 0..n |-> f[c]]
    BY <1>4
  <1>7. IsKept(f)
    BY <1>5, <1>6, Zenon DEF IsKept, n
  <1> QED BY <1>7

LEMMA KeptStep ==
    ASSUME Len(plans) \in Nat, NEW c \in 1..Len(plans), NEW s, KeptInv(s, c - 1),
           NEW t, t = IF NewChoice(s, c) THEN Append(s, c) ELSE s
    PROVE  KeptInv(t, c)
  <1>1. /\ c \in Nat /\ c - 1 \in Nat /\ c \in 1..c /\ \A d \in 1..c : d \in 1..(c - 1) \/ d = c
        /\ \A d \in 1..(c - 1) : d \in 1..c /\ d \in Nat /\ d < c
    OBVIOUS
  <1>2. /\ s \in Seq(1..(c - 1)) /\ Len(s) \in Nat /\ DOMAIN s = 1..Len(s)
        /\ \A k \in 1..Len(s) : s[k] \in 1..(c - 1)
    BY DEF KeptInv
  <1>3. CASE NewChoice(s, c)
    <2>1. /\ Built(c) # None /\ \A k \in 1..Len(s) : ~Within1(c, s[k])
      BY <1>2, <1>3 DEF NewChoice, Within1
    <2>2. s \in Seq(1..c) /\ t = Append(s, c)
      BY <1>1, <1>2, <1>3
    <2>3. /\ t \in Seq(1..c) /\ Len(t) = Len(s) + 1 /\ t[Len(s) + 1] = c
          /\ \A k \in 1..Len(s) : t[k] = s[k]
      <3> DEFINE X == 1..c
      <3>1. s \in Seq(X) /\ c \in X
        BY <1>1, <2>2
      <3> HIDE DEF X
      <3>2. /\ Append(s, c) \in Seq(X) /\ Len(Append(s, c)) = Len(s) + 1
            /\ Append(s, c)[Len(s) + 1] = c /\ \A k \in 1..Len(s) : Append(s, c)[k] = s[k]
        BY <3>1, AppendIs
      <3> QED BY <2>2, <3>2 DEF X
    <2>4. \A k \in 1..Len(t) : k \in 1..Len(s) \/ k = Len(s) + 1
      BY <1>2, <2>3
    <2>5. \A k \in 1..Len(t) : Built(t[k]) # None
      BY <2>1, <2>3, <2>4 DEF KeptInv
    <2>6. ASSUME NEW j \in 1..Len(t), NEW k \in 1..Len(t), j < k
          PROVE  t[j] < t[k] /\ ~Within1(t[k], t[j])
      <3>1. j \in 1..Len(s)
        BY <1>2, <2>3, <2>4, <2>6
      <3>2. CASE k \in 1..Len(s)
        BY <2>3, <2>6, <3>1, <3>2 DEF KeptInv
      <3>3. CASE k = Len(s) + 1
        <4>1. t[j] = s[j] /\ t[k] = c /\ s[j] < c
          BY <1>1, <1>2, <2>3, <3>1, <3>3
        <4> QED BY <2>1, <3>1, <4>1
      <3> QED BY <2>4, <3>2, <3>3
    <2>7. ASSUME NEW d \in 1..c
          PROVE  Built(d) = None \/ \E k \in 1..Len(t) : Within1(d, t[k])
      <3>1. CASE d = c
        <4>1. Len(s) + 1 \in 1..Len(t)
          BY <1>2, <2>3
        <4>2. Within1(d, t[Len(s) + 1])
          BY <2>3, <3>1 DEF Within1
        <4> QED BY <4>1, <4>2
      <3>2. CASE d \in 1..(c - 1)
        <4>1. Built(d) = None \/ \E k \in 1..Len(s) : Within1(d, s[k])
          BY <3>2 DEF KeptInv
        <4>2. \A k \in 1..Len(s) : k \in 1..Len(t)
          BY <1>2, <2>3
        <4> QED BY <2>3, <4>1, <4>2
      <3> QED BY <1>1, <3>1, <3>2
    <2>8. ASSUME AllNew PROVE Len(t) = c /\ \A k \in 1..c : t[k] = k
      <3>1. Len(s) = c - 1 /\ \A k \in 1..(c - 1) : s[k] = k
        BY <2>8 DEF KeptInv
      <3>2. Len(s) + 1 = c
        BY <1>1, <3>1
      <3> QED BY <1>1, <2>3, <3>1, <3>2
    <2> QED BY <2>3, <2>5, <2>6, <2>7, <2>8 DEF KeptInv
  <1>4. CASE ~NewChoice(s, c)
    <2>1. Built(c) = None \/ \E k \in 1..Len(s) : Within1(c, s[k])
      BY <1>2, <1>4 DEF NewChoice, Within1
    <2>2. t = s /\ s \in Seq(1..c)
      BY <1>1, <1>2, <1>4
    <2>3. ~AllNew
      <3> SUFFICES ASSUME AllNew PROVE FALSE
        OBVIOUS
      <3>1. Len(s) = c - 1 /\ \A k \in 1..(c - 1) : s[k] = k
        BY DEF KeptInv
      <3>2. Built(c) # None /\ \A j \in 1..(c - 1) : ~Within1(c, j)
        BY <1>1 DEF AllNew
      <3> QED BY <2>1, <3>1, <3>2
    <2>4. \A d \in 1..c : Built(d) = None \/ \E k \in 1..Len(s) : Within1(d, s[k])
      BY <1>1, <2>1 DEF KeptInv
    <2> QED BY <2>2, <2>3, <2>4 DEF KeptInv
  <1> QED BY <1>3, <1>4

LEMMA ChosenIs ==
    ASSUME Len(plans) \in Nat
    PROVE  KeptInv(Chosen, Len(plans))
  <1>1. Chosen = (CHOOSE f : IsKept(f))[Len(plans)]
    BY Zenon DEF Chosen, IsKept
  <1>2. PICK f : f = CHOOSE g : IsKept(g)
    OBVIOUS
  <1>3. IsKept(f)
    BY <1>2, KeptExists
  <1> DEFINE S == {c \in 0..Len(plans) : KeptInv(f[c], c)}
  <1>4. 0 \in S
    <2>1. f[0] = <<>>
      BY <1>3 DEF IsKept
    <2>2. KeptInv(<<>>, 0)
      BY DEF KeptInv
    <2> QED BY <2>1, <2>2
  <1>5. ASSUME NEW c \in 1..Len(plans), c - 1 \in S PROVE c \in S
    <2>1. c \in 0..Len(plans) /\ c # 0
      OBVIOUS
    <2>2. f[c] = IF NewChoice(f[c - 1], c) THEN Append(f[c - 1], c) ELSE f[c - 1]
      BY <1>3, <2>1 DEF IsKept
    <2>3. KeptInv(f[c - 1], c - 1)
      BY <1>5
    <2>4. KeptInv(f[c], c)
      BY <2>2, <2>3, KeptStep
    <2> QED BY <2>1, <2>4
  <1>6. \A c \in 0..Len(plans) : c \in S
    <2> HIDE DEF S
    <2> QED BY <1>4, <1>5, UpTo
  <1>7. Len(plans) \in S
    BY <1>6
  <1> QED BY <1>1, <1>2, <1>7

(* The courses that are answered are a front of what was kept.              *)
IsChoice(cs) ==
    /\ DOMAIN cs = 1..Len(cs) /\ Len(cs) \in 0..MaxCourses
    /\ \A k \in 1..Len(cs) : /\ cs[k].plan \in DOMAIN plans
                             /\ Built(cs[k].plan) # None
                             /\ cs[k].course = Built(cs[k].plan)
    /\ \A j, k \in 1..Len(cs) : j < k => ~Within1(cs[k].plan, cs[j].plan)
    /\ Len(cs) < MaxCourses =>
         \A c \in DOMAIN plans : Built(c) = None \/ \E k \in 1..Len(cs) : Within1(c, cs[k].plan)
    /\ AllNew => /\ Len(plans) =< MaxCourses => Len(cs) = Len(plans)
                 /\ \A k \in 1..Len(cs) : cs[k].plan = k

LEMMA FrontOf ==
    ASSUME NEW a \in Nat, NEW b \in Nat, NEW n, n = Min({a, b})
    PROVE  /\ n \in 0..b /\ n \in Nat /\ n =< a /\ n =< b
           /\ n < b => n = a
           /\ a =< b => n = a
           /\ \A k \in 1..n : k \in 1..a
  <1>1. n = IF a =< b THEN a ELSE b
    BY Minimum
  <1> QED BY <1>1

LEMMA AssembledIs ==
    ASSUME Len(plans) \in Nat, DOMAIN plans = 1..Len(plans)
    PROVE  IsChoice(Assembled)
  <1>s. PICK s : s = Chosen
    OBVIOUS
  <1>z. PICK z : z = Len(s)
    OBVIOUS
  <1>n. PICK n : n = Min({z, MaxCourses})
    OBVIOUS
  <1> DEFINE cs == Assembled
  <1>1. KeptInv(s, Len(plans))
    BY <1>s, ChosenIs
  <1>2. /\ z \in Nat /\ DOMAIN s = 1..z /\ \A k \in 1..z : s[k] \in 1..Len(plans)
        /\ MaxCourses \in Nat
    BY <1>1, <1>z, BuilderAssumption DEF KeptInv
  <1>4. cs = [k \in 1..n |-> [plan |-> s[k], course |-> Built(s[k])]]
    BY <1>s, <1>z, <1>n DEF Assembled
  <1> HIDE DEF cs
  <1>5. /\ n \in 0..MaxCourses /\ n \in Nat /\ n =< z /\ n =< MaxCourses
        /\ n < MaxCourses => n = z
        /\ z =< MaxCourses => n = z
        /\ \A k \in 1..n : k \in 1..z
    BY <1>2, <1>n, FrontOf
  <1>6. DOMAIN cs = 1..n /\ Len(cs) = n
    BY <1>4, <1>5
  <1>7. ASSUME NEW k \in 1..n
        PROVE  k \in 1..z /\ cs[k].plan = s[k] /\ cs[k].course = Built(s[k])
    <2>1. k \in 1..z
      BY <1>5
    <2>2. cs[k] = [plan |-> s[k], course |-> Built(s[k])]
      BY <1>4
    <2> QED BY <2>1, <2>2
  <1>8. \A k \in 1..n : /\ cs[k].plan \in DOMAIN plans
                       /\ Built(cs[k].plan) # None
                       /\ cs[k].course = Built(cs[k].plan)
    <2>1. \A k \in 1..z : Built(s[k]) # None
      BY <1>1, <1>z DEF KeptInv
    <2> QED BY <1>2, <1>7, <2>1
  <1>9. \A j, k \in 1..n : j < k => ~Within1(cs[k].plan, cs[j].plan)
    BY <1>1, <1>7, <1>z DEF KeptInv
  <1>10. n < MaxCourses =>
           \A c \in DOMAIN plans : Built(c) = None \/ \E k \in 1..n : Within1(c, cs[k].plan)
    <2> SUFFICES ASSUME n < MaxCourses, NEW c \in DOMAIN plans
                 PROVE  Built(c) = None \/ \E k \in 1..n : Within1(c, cs[k].plan)
      OBVIOUS
    <2>1. Built(c) = None \/ \E k \in 1..z : Within1(c, s[k])
      BY <1>1, <1>z DEF KeptInv
    <2> QED BY <1>5, <1>7, <2>1
  <1>11. ASSUME AllNew
         PROVE  /\ Len(plans) =< MaxCourses => n = Len(plans)
                /\ \A k \in 1..n : cs[k].plan = k
    <2>1. z = Len(plans) /\ \A k \in 1..Len(plans) : s[k] = k
      BY <1>1, <1>11, <1>z DEF KeptInv
    <2> QED BY <1>2, <1>5, <1>7, <2>1
  <1>12. n \in 0..MaxCourses
    BY <1>2, <1>5
  <1> QED BY <1>6, <1>8, <1>9, <1>10, <1>11, <1>12 DEF IsChoice, cs

-----------------------------------------------------------------------------
(* The invariant of the request: until it is answered there is nothing to   *)
(* answer, and what was chosen stays the choice of the times it was made of.*)
PhaseInv ==
    /\ phase = "compose" => drafted = "nobody" /\ plans = <<>> /\ DOMAIN leg = {}
    /\ phase # "answered" => outcome = "none" /\ courses = <<>>

AnswerInv ==
    phase = "answered" =>
        /\ Running = {}
        /\ outcome \in {"courses"} \cup Failures
        /\ outcome = "courses" => Failed = {} /\ IsChoice(courses)
        /\ outcome # "courses" => courses = <<>> /\ \E l \in Failed : leg[l].is = outcome

RulesInv == drafted = "rules" /\ req.origin = None => plans = FromRules

CourseInv == TypeInv /\ PhaseInv /\ AnswerInv /\ RulesInv

LEMMA BuiltStays ==
    ASSUME UNCHANGED <<req, plans>>, \A l : Minutes(l)' = Minutes(l)
    PROVE  /\ \A c : Built(c)' = Built(c)
           /\ \A cs : IsChoice(cs) => IsChoice(cs)'
  <1>1. \A p : TravelTimes(p)' = TravelTimes(p)
    BY DEF TravelTimes
  <1>2. \A c : Built(c)' = Built(c)
    BY <1>1 DEF Built
  <1>3. \A d, e : Within1(d, e)' <=> Within1(d, e)
    BY <1>2 DEF Within1
  <1>4. AllNew' <=> AllNew
    BY <1>2, <1>3 DEF AllNew
  <1>5. \A cs : IsChoice(cs) => IsChoice(cs)'
    BY <1>2, <1>3, <1>4 DEF IsChoice
  <1> QED BY <1>2, <1>5

(* A task that is told to stop, or does, changes nothing that is answered.  *)
Stopped(l) == leg[l].is \in {"running", "stopping"}
                /\ leg'[l] \in {Ended("stopping"), Ended("cancelled")}

LEMMA StopsTasks ==
    ASSUME DOMAIN leg' = DOMAIN leg, \A l \in DOMAIN leg : leg'[l] = leg[l] \/ Stopped(l)
    PROVE  /\ \A l : Minutes(l)' = Minutes(l)
           /\ Running' \subseteq Running
           /\ Failed' = Failed /\ \A l \in Failed : leg'[l] = leg[l]
           /\ LegInv => LegInv'
  <1>1. \A l \in DOMAIN leg : \/ leg'[l] = leg[l]
                             \/ /\ leg[l].is \in {"running", "stopping"}
                                /\ leg'[l].is \in {"stopping", "cancelled"}
    BY DEF Ended, Stopped
  <1>2. ASSUME NEW l PROVE Minutes(l)' = Minutes(l)
    <2>1. Routed(l)' <=> Routed(l)
      BY <1>1 DEF Routed
    <2>2. Routed(l) => leg'[l] = leg[l]
      BY <1>1 DEF Routed
    <2> QED BY <2>1, <2>2 DEF Minutes
  <1>3. Running' \subseteq Running
    BY <1>1 DEF Running
  <1>4. Failed' = Failed /\ \A l \in Failed : leg'[l] = leg[l]
    BY <1>1 DEF Failed, Failures
  <1>5. LegInv => LegInv'
    BY <1>1 DEF LegInv, Statuses
  <1> QED BY <1>2, <1>3, <1>4, <1>5

LEMMA StopsLegs ==
    ASSUME StopLegs
    PROVE  /\ \A l : Minutes(l)' = Minutes(l)
           /\ Running' = {} /\ Failed' = Failed /\ \A l \in Failed : leg'[l] = leg[l]
           /\ LegInv => LegInv'
  <1>1. /\ DOMAIN leg' = DOMAIN leg
        /\ \A l \in DOMAIN leg : leg'[l] = IF leg[l].is = "running" THEN Ended("stopping") ELSE leg[l]
    BY DEF StopLegs, Running
  <1>2. \A l \in DOMAIN leg : leg'[l] = leg[l] \/ Stopped(l)
    BY <1>1 DEF Stopped
  <1>3. Ended("stopping").is = "stopping"
    BY DEF Ended
  <1>4. Running' = {}
    BY <1>1, <1>3 DEF Running
  <1> QED BY <1>1, <1>2, <1>4, StopsTasks

-----------------------------------------------------------------------------
(* The drafts: what _compose makes and the order of visits.                 *)
(* A course of the model, as _recommend reads it.                           *)
Mentions(course) == Len(course) \in Nat /\ \A i \in 1..Len(course) : course[i].stay \in Int

NextPick(course, i, taken) ==
    IF /\ course[i].place \in ToSet(req.ranked)
       /\ course[i].place \notin ToSet(PlacesOf(taken))
    THEN Append(taken, Pick(course[i]))
    ELSE taken

IsTaken(f, course) ==
    f = [i \in 0..Len(course) |-> IF i = 0 THEN <<>> ELSE NextPick(course, i, f[i - 1])]

LEMMA NextPickIs ==
    ASSUME TypeInv, NEW course, Mentions(course), NEW i \in 1..Len(course), NEW s \in PickSeqs
    PROVE  NextPick(course, i, s) \in PickSeqs
  <1>1. CASE course[i].place \in ToSet(req.ranked)
    <2>1. course[i].place \in Places
      <3>1. req.ranked \in Seq(Places)
        BY RequestIs
      <3>2. \A x \in ToSet(req.ranked) : x \in Places
        BY <3>1 DEF ToSet
      <3> QED BY <1>1, <3>2
    <2>2. course[i].stay \in Int
      BY DEF Mentions
    <2>3. Pick(course[i]) \in PickType
      BY <2>1, <2>2 DEF Pick, PickType, DefaultStay
    <2>4. Append(s, Pick(course[i])) \in PickSeqs
      BY <2>3, AppendIs DEF PickSeqs
    <2> QED BY <2>4 DEF NextPick
  <1>2. CASE course[i].place \notin ToSet(req.ranked)
    BY <1>2 DEF NextPick
  <1> QED BY <1>1, <1>2

LEMMA PicksAre ==
    ASSUME TypeInv, NEW course, Mentions(course)
    PROVE  Picks(course) \in PickSeqs
  <1> DEFINE n == Len(course)
             step == [y \in (1..n) \X PickSeqs |-> NextPick(course, y[1], y[2])]
  <1>1. n \in Nat
    BY DEF Mentions
  <1>2. step \in [(1..n) \X PickSeqs -> PickSeqs]
    BY NextPickIs
  <1>3. <<>> \in PickSeqs
    BY DEF PickSeqs
  <1> HIDE DEF n
  <1>4. PICK f \in [0..n -> PickSeqs] : Recursive(f, n, <<>>, step)
    <2> HIDE DEF step
    <2> QED BY <1>1, <1>2, <1>3, RecursionExists
  <1>5. ASSUME NEW i \in 0..n
        PROVE  f[i] = IF i = 0 THEN <<>> ELSE NextPick(course, i, f[i - 1])
    <2>1. f[i] = IF i = 0 THEN <<>> ELSE step[<<i, f[i - 1]>>]
      BY <1>4 DEF Recursive
    <2>2. i # 0 => i \in 1..n /\ f[i - 1] \in PickSeqs
      BY <1>1, <1>4
    <2> QED BY <2>1, <2>2
  <1>6. f = [i \in 0..n |-> f[i]]
    BY <1>4
  <1>7. IsTaken(f, course)
    BY <1>5, <1>6, Zenon DEF IsTaken, n
  <1>8. PICK g : g = CHOOSE h : IsTaken(h, course)
    OBVIOUS
  <1>9. IsTaken(g, course)
    BY <1>7, <1>8
  <1>10. \A i \in 0..n : g[i] \in PickSeqs
    <2> DEFINE S == {i \in 0..n : g[i] \in PickSeqs}
    <2>1. \A i \in 0..n : g[i] = IF i = 0 THEN <<>> ELSE NextPick(course, i, g[i - 1])
      BY <1>9 DEF IsTaken, n
    <2>2. 0 \in S
      BY <1>1, <1>3, <2>1
    <2>3. ASSUME NEW i \in 1..n, i - 1 \in S PROVE i \in S
      <3>1. NextPick(course, i, g[i - 1]) \in PickSeqs
        BY <2>3, NextPickIs DEF n
      <3> QED BY <1>1, <2>1, <3>1
    <2>4. \A i \in 0..n : i \in S
      <3> HIDE DEF S
      <3> QED BY <1>1, <2>2, <2>3, UpTo
    <2> QED BY <2>4
  <1>11. Picks(course) = SubSeq(g[n], 1, Min({Len(g[n]), MaxPlaces}))
    <2>1. Picks(course) = LET all == (CHOOSE h : IsTaken(h, course))[Len(course)]
                          IN  SubSeq(all, 1, Min({Len(all), MaxPlaces}))
      BY Zenon DEF Picks, IsTaken, NextPick
    <2> QED BY <1>8, <2>1 DEF n
  <1>12. PICK all : all = g[n]
    OBVIOUS
  <1>13. PICK m : m = Min({Len(all), MaxPlaces})
    OBVIOUS
  <1>14. all \in PickSeqs /\ Len(all) \in Nat
    BY <1>1, <1>10, <1>12 DEF PickSeqs
  <1>15. m \in Nat /\ m =< Len(all)
    BY <1>13, <1>14, FrontOf, BuilderAssumption
  <1>16. SubSeq(all, 1, m) \in PickSeqs
    BY <1>14, <1>15 DEF PickSeqs
  <1> QED BY <1>11, <1>12, <1>13, <1>16

NextDraft(answer, i, drafts) ==
    IF Picks(answer[i]) # <<>> THEN Append(drafts, Picks(answer[i])) ELSE drafts

IsDrafts(f, answer) ==
    f = [i \in 0..Len(answer) |-> IF i = 0 THEN <<>> ELSE NextDraft(answer, i, f[i - 1])]

LEMMA FromModelIs ==
    ASSUME TypeInv, NEW answer \in Answers
    PROVE  FromModel(answer) \in Seq(PickSeqs)
  <1>1. CASE answer = None
    BY <1>1 DEF FromModel
  <1>2. CASE answer # None
    <2> DEFINE n == Len(answer)
               X == Seq(PickSeqs)
               step == [y \in (1..n) \X X |-> NextDraft(answer, y[1], y[2])]
    <2>1. n \in Nat /\ \A i \in 1..n : Mentions(answer[i])
      BY <1>2, AssemblyAssumption DEF Mentions
    <2>2. ASSUME NEW i \in 1..n, NEW s \in X PROVE NextDraft(answer, i, s) \in X
      <3>1. Picks(answer[i]) \in PickSeqs
        BY <2>1, PicksAre
      <3>2. Append(s, Picks(answer[i])) \in X
        BY <3>1, AppendIs
      <3> QED BY <3>2 DEF NextDraft
    <2>3. <<>> \in X
      OBVIOUS
    <2> HIDE DEF n, X
    <2>4. step \in [(1..n) \X X -> X]
      BY <2>2
    <2>5. PICK f \in [0..n -> X] : Recursive(f, n, <<>>, step)
      <3> HIDE DEF step
      <3> QED BY <2>1, <2>3, <2>4, RecursionExists
    <2>6. ASSUME NEW i \in 0..n
          PROVE  f[i] = IF i = 0 THEN <<>> ELSE NextDraft(answer, i, f[i - 1])
      <3>1. f[i] = IF i = 0 THEN <<>> ELSE step[<<i, f[i - 1]>>]
        BY <2>5 DEF Recursive
      <3>2. i # 0 => i \in 1..n /\ f[i - 1] \in X
        BY <2>1, <2>5
      <3> QED BY <3>1, <3>2
    <2>7. f = [i \in 0..n |-> f[i]]
      BY <2>5
    <2>8. IsDrafts(f, answer)
      BY <2>6, <2>7, Zenon DEF IsDrafts, n
    <2>9. PICK g : g = CHOOSE h : IsDrafts(h, answer)
      OBVIOUS
    <2>10. IsDrafts(g, answer)
      BY <2>8, <2>9
    <2>11. \A i \in 0..n : g[i] \in X
      <3> DEFINE S == {i \in 0..n : g[i] \in X}
      <3>1. \A i \in 0..n : g[i] = IF i = 0 THEN <<>> ELSE NextDraft(answer, i, g[i - 1])
        BY <2>10 DEF IsDrafts, n
      <3>2. 0 \in S
        BY <2>1, <2>3, <3>1
      <3>3. ASSUME NEW i \in 1..n, i - 1 \in S PROVE i \in S
        <4>1. NextDraft(answer, i, g[i - 1]) \in X
          BY <2>2, <3>3
        <4> QED BY <2>1, <3>1, <4>1
      <3>4. \A i \in 0..n : i \in S
        <4> HIDE DEF S
        <4> QED BY <2>1, <3>2, <3>3, UpTo
      <3> QED BY <3>4
    <2>12. FromModel(answer) = g[n]
      <3>1. FromModel(answer) =
              IF answer = None THEN <<>> ELSE (CHOOSE h : IsDrafts(h, answer))[Len(answer)]
        BY Zenon DEF FromModel, IsDrafts, NextDraft
      <3> QED BY <1>2, <2>9, <3>1 DEF n
    <2> QED BY <2>1, <2>11, <2>12 DEF X
  <1> QED BY <1>1, <1>2

-----------------------------------------------------------------------------
(* The nearest place, the rest, and the order of visits.                    *)
LEMMA NearestIs ==
    ASSUME NEW here \in Int, NEW s \in Seq(Places), s # <<>>
    PROVE  LET i == Nearest(here, s) IN
           /\ i \in 1..Len(s)
           /\ \A j \in 1..Len(s) : Distance(here, Coord[s[i]]) =< Distance(here, Coord[s[j]])
           /\ (\A j \in 1..Len(s) : Distance(here, Coord[s[1]]) =< Distance(here, Coord[s[j]]))
                 => i = 1
  <1>n. PICK n : n = Len(s)
    OBVIOUS
  <1>1. n \in Nat /\ 1 \in 1..n /\ DOMAIN s = 1..n
    BY <1>n
  <1>2. \A i \in 1..n : Distance(here, Coord[s[i]]) \in Nat
    <2>1. \A i \in 1..n : Coord[s[i]] \in Int
      BY <1>1, <1>n, BuilderAssumption
    <2> QED BY <2>1, Estimated
  <1>d. PICK d : d = [i \in 1..n |-> Distance(here, Coord[s[i]])]
    OBVIOUS
  <1>3. \A i \in 1..n : d[i] \in Nat /\ d[i] = Distance(here, Coord[s[i]])
    BY <1>2, <1>d
  <1> DEFINE IsNearest(i) == /\ i \in 1..n
                             /\ \A j \in 1..n : d[i] =< d[j]
                             /\ \A j \in 1..(i - 1) : d[i] < d[j]
             Least == {v \in Nat : \E i \in 1..n : d[i] = v}
  <1>4. \E v \in Least : \A w \in Least : v =< w
    <2>1. Least \subseteq Nat /\ d[1] \in Least
      BY <1>1, <1>3
    <2>2. PICK v \in Least : \A w \in Least : <<w, v>> \notin OpToRel(<, Nat)
      <3> HIDE DEF Least
      <3> QED BY <2>1, NatLessThanWellFounded, WFMin
    <2>3. \A w \in Least : ~ (w < v)
      BY <2>1, <2>2 DEF OpToRel
    <2>4. \A w \in Least : v =< w
      BY <2>1, <2>3
    <2> QED BY <2>4
  <1>5. PICK v \in Least : \A i \in 1..n : v =< d[i]
    BY <1>3, <1>4
  <1> DEFINE Where == {i \in Nat : i \in 1..n /\ d[i] = v}
  <1>6. PICK i \in Where : \A j \in Where : i =< j
    <2>1. Where \subseteq Nat /\ Where # {}
      BY <1>1, <1>5
    <2>2. PICK i \in Where : \A j \in Where : <<j, i>> \notin OpToRel(<, Nat)
      <3> HIDE DEF Where
      <3> QED BY <2>1, NatLessThanWellFounded, WFMin
    <2>3. \A j \in Where : ~ (j < i)
      BY <2>1, <2>2 DEF OpToRel
    <2>4. \A j \in Where : i =< j
      BY <2>1, <2>3
    <2> QED BY <2>4
  <1>7. IsNearest(i)
    <2>1. i \in 1..n /\ d[i] = v
      BY <1>6
    <2>2. \A j \in 1..n : d[i] =< d[j]
      BY <1>5, <2>1
    <2>3. ASSUME NEW j \in 1..(i - 1) PROVE d[i] < d[j]
      <3>1. j \in 1..n /\ j \in Nat /\ ~ (i =< j)
        BY <1>1, <2>1
      <3>2. d[j] # v
        BY <1>6, <3>1
      <3> QED BY <1>3, <2>1, <2>2, <3>1, <3>2
    <2> QED BY <2>1, <2>2, <2>3
  <1> HIDE DEF IsNearest
  <1>8. Nearest(here, s) = CHOOSE k : IsNearest(k)
    <2>1. \A k : IsNearest(k) <=>
            /\ k \in DOMAIN s
            /\ \A j \in DOMAIN s : Distance(here, Coord[s[k]]) =< Distance(here, Coord[s[j]])
            /\ \A j \in 1..(k - 1) : Distance(here, Coord[s[k]]) < Distance(here, Coord[s[j]])
      <3> SUFFICES ASSUME NEW k
                   PROVE  IsNearest(k) <=>
                            /\ k \in DOMAIN s
                            /\ \A j \in DOMAIN s : Distance(here, Coord[s[k]]) =< Distance(here, Coord[s[j]])
                            /\ \A j \in 1..(k - 1) : Distance(here, Coord[s[k]]) < Distance(here, Coord[s[j]])
        OBVIOUS
      <3>1. CASE k \in 1..n
        <4>1. \A j \in 1..(k - 1) : j \in 1..n
          BY <1>1, <3>1
        <4> QED BY <1>1, <1>3, <3>1, <4>1 DEF IsNearest
      <3>2. CASE k \notin 1..n
        BY <1>1, <3>2 DEF IsNearest
      <3> QED BY <3>1, <3>2
    <2> DEFINE Q(k) == /\ \A j \in DOMAIN s : Distance(here, Coord[s[k]]) =< Distance(here, Coord[s[j]])
                       /\ \A j \in 1..(k - 1) : Distance(here, Coord[s[k]]) < Distance(here, Coord[s[j]])
    <2>2. Nearest(here, s) = CHOOSE k \in DOMAIN s : Q(k)
      BY DEF Nearest
    <2>3. \A k : IsNearest(k) <=> k \in DOMAIN s /\ Q(k)
      BY <2>1
    <2> HIDE DEF Q
    <2>4. (CHOOSE k \in DOMAIN s : Q(k)) = CHOOSE k : k \in DOMAIN s /\ Q(k)
      OBVIOUS
    <2> QED BY <2>2, <2>3, <2>4
  <1>9. PICK m : m = Nearest(here, s)
    OBVIOUS
  <1>10. IsNearest(m)
    BY <1>7, <1>8, <1>9
  <1>11. m \in 1..n /\ (\A j \in 1..n : d[m] =< d[j]) /\ (\A j \in 1..(m - 1) : d[m] < d[j])
    BY <1>10 DEF IsNearest
  <1>12. ASSUME \A j \in 1..n : d[1] =< d[j] PROVE m = 1
    <2> SUFFICES ASSUME m # 1 PROVE FALSE
      OBVIOUS
    <2>1. 1 \in 1..(m - 1)
      BY <1>1, <1>11
    <2>2. d[m] < d[1] /\ d[1] =< d[m] /\ d[1] \in Nat /\ d[m] \in Nat
      BY <1>1, <1>3, <1>11, <1>12, <2>1
    <2> QED BY <2>2
  <1>13. \A j \in 1..n : Distance(here, Coord[s[m]]) =< Distance(here, Coord[s[j]])
    BY <1>3, <1>11
  <1>14. (\A j \in 1..n : Distance(here, Coord[s[1]]) =< Distance(here, Coord[s[j]])) => m = 1
    BY <1>1, <1>3, <1>12
  <1> QED BY <1>9, <1>11, <1>13, <1>14, <1>n

LEMMA RemoveIs ==
    ASSUME NEW X, NEW s \in Seq(X), NEW i \in 1..Len(s)
    PROVE  /\ RemoveAt(s, i) \in Seq(X) /\ Len(RemoveAt(s, i)) = Len(s) - 1
           /\ \A j \in 1..(Len(s) - 1) : RemoveAt(s, i)[j] = IF j < i THEN s[j] ELSE s[j + 1]
  <1>n. PICK n : n = Len(s)
    OBVIOUS
  <1>a. PICK a : a = SubSeq(s, 1, i - 1)
    OBVIOUS
  <1>b. PICK b : b = SubSeq(s, i + 1, n)
    OBVIOUS
  <1>1. n \in Nat /\ i \in 1..n /\ \A j \in 1..n : s[j] \in X
    BY <1>n
  <1>2. a \in Seq(X) /\ Len(a) = i - 1 /\ \A j \in 1..(i - 1) : a[j] = s[j]
    BY <1>1, <1>a, <1>n
  <1>3. b \in Seq(X) /\ Len(b) = n - i /\ \A j \in 1..(n - i) : b[j] = s[j + i]
    BY <1>1, <1>b, <1>n
  <1>4. RemoveAt(s, i) = a \o b
    BY <1>a, <1>b, <1>n DEF RemoveAt
  <1>5. a \o b \in Seq(X) /\ Len(a \o b) = Len(a) + Len(b)
    <2>1. a \in Seq(X) /\ b \in Seq(X)
      BY <1>2, <1>3
    <2>2. a \o b \in Seq(X)
      BY <2>1
    <2>3. Len(a \o b) = Len(a) + Len(b)
      BY <2>1
    <2> QED BY <2>2, <2>3
  <1>6. Len(a \o b) = n - 1
    BY <1>1, <1>2, <1>3, <1>5
  <1>7. ASSUME NEW j \in 1..(n - 1)
        PROVE  (a \o b)[j] = IF j < i THEN s[j] ELSE s[j + 1]
    <2>1. (a \o b)[j] = IF j =< Len(a) THEN a[j] ELSE b[j - Len(a)]
      BY <1>1, <1>2, <1>3
    <2>2. CASE j < i
      <3>1. j \in 1..(i - 1) /\ j =< Len(a)
        BY <1>1, <1>2, <2>2
      <3> QED BY <1>2, <2>1, <2>2, <3>1
    <2>3. CASE ~ (j < i)
      <3>1. ~ (j =< Len(a)) /\ j - Len(a) \in 1..(n - i) /\ (j - Len(a)) + i = j + 1
        BY <1>1, <1>2, <2>3
      <3> QED BY <1>3, <2>1, <2>3, <3>1
    <2> QED BY <2>2, <2>3
  <1> QED BY <1>4, <1>5, <1>6, <1>7, <1>n

-----------------------------------------------------------------------------
(* The tour of n picks: after k of them, k are visited and the rest left.   *)
TourStep(s) ==
    LET i == Nearest(s.at, PlacesOf(s.left))
    IN  [visited |-> Append(s.visited, s.left[i]),
         left    |-> RemoveAt(s.left, i),
         at      |-> Coord[s.left[i].place]]

IsTour(f, picks, here) ==
    f = [k \in 0..Len(picks) |->
           IF k = 0 THEN [visited |-> <<>>, left |-> picks, at |-> here] ELSE TourStep(f[k - 1])]

TourStates == [visited : PickSeqs, left : PickSeqs, at : Int]

Touring(n, k) == {s \in TourStates : Len(s.left) = n - k}

LEMMA TourStepIs ==
    ASSUME NEW n \in Nat, NEW k \in 1..n, NEW s \in Touring(n, k - 1)
    PROVE  LET i == Nearest(s.at, PlacesOf(s.left)) IN
           /\ TourStep(s) \in Touring(n, k)
           /\ i \in 1..Len(s.left)
           /\ (\A j \in 1..Len(s.left) : Distance(s.at, Coord[s.left[1].place])
                                            =< Distance(s.at, Coord[s.left[j].place])) => i = 1
  <1>a. PICK at : at = s.at
    OBVIOUS
  <1>l. PICK left : left = s.left
    OBVIOUS
  <1>q. PICK q : q = PlacesOf(left)
    OBVIOUS
  <1>i. PICK i : i = Nearest(at, q)
    OBVIOUS
  <1>1. at \in Int /\ left \in PickSeqs /\ s.visited \in PickSeqs /\ Len(left) = n - (k - 1)
    BY <1>a, <1>l DEF Touring, TourStates
  <1>2. /\ Len(left) \in 1..n /\ DOMAIN left = 1..Len(left)
        /\ \A j \in 1..Len(left) : left[j] \in PickType /\ left[j].place \in Places
    BY <1>1, PickSeqIs
  <1>3. q = [j \in 1..Len(left) |-> left[j].place]
    BY <1>2, <1>q DEF PlacesOf
  <1>4. q \in Seq(Places) /\ Len(q) = Len(left) /\ q # <<>>
        /\ \A j \in 1..Len(left) : q[j] = left[j].place
    BY <1>2, <1>3
  <1>5. /\ i \in 1..Len(q)
        /\ (\A j \in 1..Len(q) : Distance(at, Coord[q[1]]) =< Distance(at, Coord[q[j]])) => i = 1
    BY <1>1, <1>4, <1>i, NearestIs
  <1>6. i \in 1..Len(left)
    BY <1>4, <1>5
  <1>7. (\A j \in 1..Len(left) : Distance(at, Coord[left[1].place])
                                   =< Distance(at, Coord[left[j].place])) => i = 1
    <2>1. 1 \in 1..Len(left)
      BY <1>2
    <2> QED BY <1>4, <1>5, <2>1
  <1>8. TourStep(s) \in Touring(n, k)
    <2>1. TourStep(s) = [visited |-> Append(s.visited, left[i]), left |-> RemoveAt(left, i),
                         at |-> Coord[left[i].place]]
      BY <1>a, <1>l, <1>q, <1>i DEF TourStep
    <2>2. Append(s.visited, left[i]) \in PickSeqs
      BY <1>1, <1>2, <1>6, AppendIs DEF PickSeqs
    <2>3. RemoveAt(left, i) \in PickSeqs /\ Len(RemoveAt(left, i)) = Len(left) - 1
      BY <1>1, <1>6, RemoveIs DEF PickSeqs
    <2>4. Coord[left[i].place] \in Int
      BY <1>2, <1>6, BuilderAssumption
    <2>5. Len(left) - 1 = n - k
      BY <1>1, <1>2
    <2>6. PICK u, v, w : u = Append(s.visited, left[i]) /\ v = RemoveAt(left, i)
                         /\ w = Coord[left[i].place]
      OBVIOUS
    <2>7. u \in PickSeqs /\ v \in PickSeqs /\ w \in Int /\ Len(v) = n - k
      BY <2>2, <2>3, <2>4, <2>5, <2>6
    <2>8. TourStep(s) = [visited |-> u, left |-> v, at |-> w]
      BY <2>1, <2>6
    <2> QED BY <2>7, <2>8 DEF Touring, TourStates
  <1> QED BY <1>a, <1>l, <1>q, <1>i, <1>6, <1>7, <1>8

LEMMA TourExists ==
    ASSUME NEW picks \in PickSeqs, NEW here \in Int
    PROVE  \E f : IsTour(f, picks, here)
  <1>n. PICK n : n = Len(picks)
    OBVIOUS
  <1> DEFINE X    == [k \in 0..n |-> Touring(n, k)]
             base == [visited |-> <<>>, left |-> picks, at |-> here]
             step == [y \in (1..n) \X TourStates |-> TourStep(y[2])]
  <1>1. n \in Nat /\ \A k \in 1..n : k \in 0..n /\ k - 1 \in 0..n
    BY <1>n DEF PickSeqs
  <1>2. base \in X[0]
    <2>1. <<>> \in PickSeqs
      BY DEF PickSeqs
    <2>2. base \in Touring(n, 0)
      BY <1>1, <1>n, <2>1 DEF Touring, TourStates
    <2> QED BY <1>1, <2>2
  <1>3. ASSUME NEW k \in 1..n, NEW x \in X[k - 1]
        PROVE  step[<<k, x>>] = TourStep(x) /\ step[<<k, x>>] \in X[k]
    <2>1. x \in Touring(n, k - 1)
      BY <1>1
    <2>2. x \in TourStates /\ TourStep(x) \in Touring(n, k)
      BY <1>1, <2>1, TourStepIs DEF Touring
    <2> QED BY <1>1, <2>2
  <1> HIDE DEF X, base, step
  <1>4. PICK f : Recursive(f, n, base, step) /\ \A k \in 0..n : f[k] \in X[k]
    BY <1>1, <1>2, <1>3, RecursionIn
  <1>5. ASSUME NEW k \in 0..n PROVE f[k] = IF k = 0 THEN base ELSE TourStep(f[k - 1])
    <2>1. f[k] = IF k = 0 THEN base ELSE step[<<k, f[k - 1]>>]
      BY <1>4 DEF Recursive
    <2>2. k # 0 => k \in 1..n /\ f[k - 1] \in X[k - 1]
      BY <1>1, <1>4
    <2> QED BY <1>3, <2>1, <2>2
  <1>6. f = [k \in 0..n |-> f[k]]
    BY <1>4 DEF Recursive
  <1>7. f = [k \in 0..n |-> IF k = 0 THEN base ELSE TourStep(f[k - 1])]
    BY <1>5, <1>6, Zenon
  <1> QED BY <1>7, <1>n DEF IsTour, base

(* A tour goes through picks; where each next pick is nearest already, it   *)
(* goes through them in their order.                                        *)
InOrder(picks, here) ==
    \A k \in 1..Len(picks) : \A j \in k..Len(picks) :
        LET from == IF k = 1 THEN here ELSE Coord[picks[k - 1].place]
        IN  Distance(from, Coord[picks[k].place]) =< Distance(from, Coord[picks[j].place])

FrontVisited(picks, here, k, s) ==
    /\ Len(s.visited) = k /\ \A j \in 1..k : s.visited[j] = picks[j]
    /\ \A j \in 1..(Len(picks) - k) : s.left[j] = picks[k + j]
    /\ s.at = IF k = 0 THEN here ELSE Coord[picks[k].place]

LEMMA TourIs ==
    ASSUME NEW picks \in PickSeqs, NEW here \in Int
    PROVE  /\ Tour(picks, here) \in PickSeqs
           /\ InOrder(picks, here) => Tour(picks, here) = picks
  <1>n. PICK n : n = Len(picks)
    OBVIOUS
  <1>f. PICK f : f = CHOOSE g : IsTour(g, picks, here)
    OBVIOUS
  <1>1. n \in Nat /\ \A k \in 1..n : k \in 0..n /\ k - 1 \in 0..n /\ k # 0
    BY <1>n DEF PickSeqs
  <1>2. Tour(picks, here) = f[n].visited
    <2>1. Tour(picks, here) = (CHOOSE g : IsTour(g, picks, here))[Len(picks)].visited
      BY Zenon DEF Tour, IsTour, TourStep
    <2> QED BY <1>f, <1>n, <2>1
  <1>3. IsTour(f, picks, here)
    BY <1>f, TourExists
  <1>4. /\ f[0] = [visited |-> <<>>, left |-> picks, at |-> here]
        /\ \A k \in 1..n : f[k] = TourStep(f[k - 1])
    BY <1>1, <1>3, <1>n DEF IsTour
  <1>5. \A k \in 0..n : f[k] \in Touring(n, k)
    <2> DEFINE S == {k \in 0..n : f[k] \in Touring(n, k)}
    <2>1. 0 \in S
      <3>1. <<>> \in PickSeqs
        BY DEF PickSeqs
      <3> QED BY <1>1, <1>4, <1>n, <3>1 DEF Touring, TourStates
    <2>2. ASSUME NEW k \in 1..n, k - 1 \in S PROVE k \in S
      <3>1. TourStep(f[k - 1]) \in Touring(n, k)
        BY <1>1, <2>2, TourStepIs
      <3> QED BY <1>1, <1>4, <3>1
    <2>3. \A k \in 0..n : k \in S
      <3> HIDE DEF S
      <3> QED BY <1>1, <2>1, <2>2, UpTo
    <2> QED BY <2>3
  <1>6. f[n].visited \in PickSeqs
    BY <1>1, <1>5 DEF Touring, TourStates
  <1>7. ASSUME InOrder(picks, here) PROVE f[n].visited = picks
    <2> DEFINE S == {k \in 0..n : FrontVisited(picks, here, k, f[k])}
    <2>1. 0 \in S
      BY <1>1, <1>4, <1>n DEF FrontVisited
    <2>2. ASSUME NEW k \in 1..n, k - 1 \in S PROVE k \in S
      <3>s. PICK s : s = f[k - 1]
        OBVIOUS
      <3>1. s \in Touring(n, k - 1) /\ FrontVisited(picks, here, k - 1, s)
        BY <1>1, <1>5, <2>2, <3>s
      <3>2. /\ Len(s.visited) = k - 1 /\ \A j \in 1..(k - 1) : s.visited[j] = picks[j]
            /\ \A j \in 1..(n - (k - 1)) : s.left[j] = picks[(k - 1) + j]
            /\ s.at = IF k = 1 THEN here ELSE Coord[picks[k - 1].place]
        BY <1>1, <1>n, <3>1 DEF FrontVisited
      <3>3. s.visited \in PickSeqs /\ s.left \in PickSeqs /\ Len(s.left) = n - (k - 1)
        BY <3>1 DEF Touring, TourStates
      <3>4. ASSUME NEW j \in 1..Len(s.left)
            PROVE  Distance(s.at, Coord[s.left[1].place]) =< Distance(s.at, Coord[s.left[j].place])
        <4>1. /\ j \in 1..(n - (k - 1)) /\ 1 \in 1..(n - (k - 1))
              /\ (k - 1) + 1 = k /\ (k - 1) + j \in k..n
          BY <1>1, <3>3
        <4>2. s.left[1] = picks[k] /\ s.left[j] = picks[(k - 1) + j]
          BY <3>2, <4>1
        <4>3. Distance(s.at, Coord[picks[k].place]) =< Distance(s.at, Coord[picks[(k - 1) + j].place])
          BY <1>7, <1>n, <3>2, <4>1 DEF InOrder
        <4> QED BY <4>2, <4>3
      <3>5. Nearest(s.at, PlacesOf(s.left)) = 1
        BY <1>1, <3>1, <3>4, TourStepIs
      <3>6. f[k] = [visited |-> Append(s.visited, s.left[1]), left |-> RemoveAt(s.left, 1),
                    at |-> Coord[s.left[1].place]]
        BY <1>4, <3>5, <3>s DEF TourStep
      <3>7. s.left[1] = picks[k] /\ picks[k] \in PickType /\ 1 \in 1..Len(s.left)
        <4>1. 1 \in 1..(n - (k - 1)) /\ (k - 1) + 1 = k
          BY <1>1
        <4> QED BY <1>n, <3>2, <3>3, <4>1, PickSeqIs
      <3>8. Len(f[k].visited) = k /\ \A j \in 1..k : f[k].visited[j] = picks[j]
        <4>1. f[k].visited = Append(s.visited, picks[k])
          BY <3>6, <3>7
        <4>2. /\ Len(Append(s.visited, picks[k])) = Len(s.visited) + 1
              /\ Append(s.visited, picks[k])[Len(s.visited) + 1] = picks[k]
              /\ \A j \in 1..Len(s.visited) : Append(s.visited, picks[k])[j] = s.visited[j]
          BY <3>3, <3>7, AppendIs DEF PickSeqs
        <4>3. (k - 1) + 1 = k /\ \A j \in 1..k : j \in 1..(k - 1) \/ j = k
          BY <1>1
        <4> QED BY <3>2, <4>1, <4>2, <4>3
      <3>9. \A j \in 1..(n - k) : f[k].left[j] = picks[k + j]
        <4> TAKE j \in 1..(n - k)
        <4>1. f[k].left = RemoveAt(s.left, 1)
          BY <3>6
        <4>2. /\ j \in 1..(Len(s.left) - 1) /\ ~ (j < 1)
              /\ j + 1 \in 1..(n - (k - 1)) /\ (k - 1) + (j + 1) = k + j
          BY <1>1, <3>3
        <4>3. RemoveAt(s.left, 1)[j] = s.left[j + 1]
          BY <3>3, <3>7, <4>2, RemoveIs DEF PickSeqs
        <4> QED BY <3>2, <4>1, <4>2, <4>3
      <3>10. f[k].at = Coord[picks[k].place]
        BY <3>6, <3>7
      <3> QED BY <1>1, <1>n, <3>8, <3>9, <3>10 DEF FrontVisited
    <2>3. \A k \in 0..n : k \in S
      <3> HIDE DEF S
      <3> QED BY <1>1, <2>1, <2>2, UpTo
    <2>4. n \in S
      BY <1>1, <2>3
    <2>5. Len(f[n].visited) = n /\ \A j \in 1..n : f[n].visited[j] = picks[j]
      BY <2>4 DEF FrontVisited
    <2> QED BY <1>6, <1>n, <2>5 DEF PickSeqs
  <1> QED BY <1>2, <1>6, <1>7

LEMMA OrderIs ==
    ASSUME NEW picks \in PickSeqs, NEW origin \in Int \cup {None}
    PROVE  /\ OrderByDistance(picks, origin) \in PickSeqs
           /\ /\ origin = None
              /\ \A k \in 2..Len(picks) : \A j \in k..Len(picks) :
                    Distance(Coord[picks[k - 1].place], Coord[picks[k].place])
                       =< Distance(Coord[picks[k - 1].place], Coord[picks[j].place])
              => OrderByDistance(picks, origin) = picks
  <1>n. PICK n : n = Len(picks)
    OBVIOUS
  <1>1. n \in Nat
    BY <1>n DEF PickSeqs
  <1>2. CASE n =< 1
    BY <1>2, <1>n DEF OrderByDistance
  <1>3. CASE ~ (n =< 1) /\ origin # None
    <2>1. OrderByDistance(picks, origin) = Tour(picks, origin)
      BY <1>3, <1>n DEF OrderByDistance
    <2> QED BY <1>3, <2>1, TourIs
  <1>4. CASE ~ (n =< 1) /\ origin = None
    <2>t. PICK t : t = Tail(picks)
      OBVIOUS
    <2>h. PICK here : here = Coord[Head(picks).place]
      OBVIOUS
    <2>1. OrderByDistance(picks, origin) = <<Head(picks)>> \o Tour(t, here)
      BY <1>4, <1>n, <2>t, <2>h DEF OrderByDistance
    <2>2. /\ t \in PickSeqs /\ Len(t) = n - 1 /\ \A j \in 1..(n - 1) : t[j] = picks[j + 1]
          /\ Head(picks) = picks[1] /\ picks[1] \in PickType
      BY <1>1, <1>4, <1>n, <2>t DEF PickSeqs
    <2>3. here \in Int
      BY <2>2, <2>h, BuilderAssumption DEF PickType
    <2>4. Tour(t, here) \in PickSeqs /\ (InOrder(t, here) => Tour(t, here) = t)
      BY <2>2, <2>3, TourIs
    <2>5. <<picks[1]>> \in PickSeqs
      BY <2>2 DEF PickSeqs
    <2>6. OrderByDistance(picks, origin) \in PickSeqs
      BY <2>1, <2>2, <2>4, <2>5 DEF PickSeqs
    <2>7. ASSUME \A k \in 2..n : \A j \in k..n :
                    Distance(Coord[picks[k - 1].place], Coord[picks[k].place])
                       =< Distance(Coord[picks[k - 1].place], Coord[picks[j].place])
          PROVE  OrderByDistance(picks, origin) = picks
      <3>1. InOrder(t, here)
        <4> SUFFICES ASSUME NEW k \in 1..Len(t), NEW j \in k..Len(t)
                     PROVE  LET from == IF k = 1 THEN here ELSE Coord[t[k - 1].place]
                            IN  Distance(from, Coord[t[k].place]) =< Distance(from, Coord[t[j].place])
          BY DEF InOrder
        <4>1. /\ k + 1 \in 2..n /\ j + 1 \in (k + 1)..n /\ (k + 1) - 1 = k
              /\ k \in 1..(n - 1) /\ j \in 1..(n - 1) /\ (k # 1 => k - 1 \in 1..(n - 1) /\ (k - 1) + 1 = k)
          BY <1>1, <2>2
        <4>2. t[k] = picks[k + 1] /\ t[j] = picks[j + 1]
          BY <2>2, <4>1
        <4>3. (IF k = 1 THEN here ELSE Coord[t[k - 1].place]) = Coord[picks[k].place]
          BY <2>2, <2>h, <4>1
        <4>4. Distance(Coord[picks[k].place], Coord[picks[k + 1].place])
                 =< Distance(Coord[picks[k].place], Coord[picks[j + 1].place])
          BY <2>7, <4>1
        <4> QED BY <4>2, <4>3, <4>4
      <3>2. OrderByDistance(picks, origin) = <<picks[1]>> \o t
        BY <2>1, <2>2, <2>4, <3>1
      <3>3. <<picks[1]>> \o t = picks
        BY <1>1, <1>4, <1>n, <2>2, <2>t DEF PickSeqs
      <3> QED BY <3>2, <3>3
    <2> QED BY <1>4, <1>n, <2>6, <2>7
  <1> QED BY <1>2, <1>3, <1>4

-----------------------------------------------------------------------------
(* The groups of the rules.                                                 *)
LEMMA ElementsOf ==
    ASSUME NEW X, NEW s \in Seq(X), NEW x \in X
    PROVE  /\ ToSet(Append(s, x)) = ToSet(s) \cup {x} /\ ToSet(s) \subseteq X
           /\ \A i \in 1..Len(s) : s[i] \in ToSet(s)
           /\ \A y \in ToSet(s) : \E i \in 1..Len(s) : s[i] = y
  <1>1. /\ DOMAIN s = 1..Len(s) /\ Len(s) \in Nat /\ Append(s, x) \in Seq(X)
        /\ Len(Append(s, x)) = Len(s) + 1 /\ Append(s, x)[Len(s) + 1] = x
        /\ \A i \in 1..Len(s) : Append(s, x)[i] = s[i]
    BY AppendIs
  <1>2. DOMAIN Append(s, x) = 1..(Len(s) + 1)
    BY <1>1
  <1>3. \A i \in 1..(Len(s) + 1) : i \in 1..Len(s) \/ i = Len(s) + 1
    BY <1>1
  <1>4. Len(s) + 1 \in 1..(Len(s) + 1) /\ \A i \in 1..Len(s) : i \in 1..(Len(s) + 1)
    BY <1>1
  <1>5. ToSet(Append(s, x)) = ToSet(s) \cup {x}
    BY <1>1, <1>2, <1>3, <1>4 DEF ToSet
  <1>6. \A i \in 1..Len(s) : s[i] \in X
    BY <1>1
  <1> QED BY <1>1, <1>5, <1>6 DEF ToSet

LEMMA RestOf ==
    ASSUME NEW X, NEW s \in Seq(X), NEW i \in 1..Len(s)
    PROVE  /\ ToSet(RemoveAt(s, i)) \subseteq ToSet(s)
           /\ IsInjective(s) => /\ IsInjective(RemoveAt(s, i))
                               /\ s[i] \notin ToSet(RemoveAt(s, i))
  <1>n. PICK n : n = Len(s)
    OBVIOUS
  <1>r. PICK r : r = RemoveAt(s, i)
    OBVIOUS
  <1>1. n \in Nat /\ i \in 1..n /\ DOMAIN s = 1..n
    BY <1>n
  <1>2. r \in Seq(X) /\ Len(r) = n - 1 /\ \A j \in 1..(n - 1) : r[j] = IF j < i THEN s[j] ELSE s[j + 1]
    BY <1>n, <1>r, RemoveIs
  <1>3. DOMAIN r = 1..(n - 1)
    BY <1>2
  <1>4. IsInjective(s) => \A j, k \in 1..n : s[j] = s[k] => j = k
    BY <1>1 DEF IsInjective
  <1>at. PICK at : at = [j \in 1..(n - 1) |-> IF j < i THEN j ELSE j + 1]
    OBVIOUS
  <1>5. \A j \in 1..(n - 1) : at[j] \in 1..n /\ at[j] # i /\ r[j] = s[at[j]]
    <2> TAKE j \in 1..(n - 1)
    <2>1. at[j] = IF j < i THEN j ELSE j + 1
      BY <1>at
    <2> QED BY <1>1, <1>2, <2>1
  <1>6. \A j, k \in 1..(n - 1) : at[j] = at[k] => j = k
    BY <1>1, <1>at
  <1>7. IsInjective(s) => IsInjective(r)
    BY <1>3, <1>4, <1>5, <1>6 DEF IsInjective
  <1>8. ToSet(r) \subseteq ToSet(s)
    BY <1>1, <1>3, <1>5 DEF ToSet
  <1>9. IsInjective(s) => s[i] \notin ToSet(r)
    BY <1>1, <1>3, <1>4, <1>5 DEF ToSet
  <1> QED BY <1>r, <1>7, <1>8, <1>9

(* What the places of a group take by the estimate, as Cost counts it.      *)
Takes(group) ==
    [i \in 1..Len(group) |->
        (IF i = 1 THEN 0 ELSE EstimateMinutes(Coord[group[i - 1]], Coord[group[i]])) + DefaultStay]

Far(a, b) == Distance(Coord[a], Coord[b])

Straight(group) ==
    \A k \in 2..Len(group) : \A j \in k..Len(group) :
        Far(group[k - 1], group[k]) =< Far(group[k - 1], group[j])

Ahead(group, pool) ==
    \A k \in 2..Len(group) : \A x \in ToSet(pool) :
        Far(group[k - 1], group[k]) =< Far(group[k - 1], x)

GroupFits(group, available) ==
    available # None /\ DefaultStay =< available => Total(Len(group), Takes(group)) =< available

GrowStates == [group : Seq(Places), pool : Seq(Places), used : Nat]

Growing(pool, available) ==
    {s \in GrowStates :
        /\ Len(s.group) >= 1
        /\ ToSet(s.group) \subseteq ToSet(pool) /\ ToSet(s.pool) \subseteq ToSet(pool)
        /\ IsInjective(pool) => /\ IsInjective(s.pool)
                               /\ \A x \in ToSet(s.pool) : x \notin ToSet(s.group)
        /\ Straight(s.group) /\ Ahead(s.group, s.pool)
        /\ s.used = Total(Len(s.group), Takes(s.group))
        /\ GroupFits(s.group, available)}

LEMMA TakesAre ==
    ASSUME NEW group \in Seq(Places)
    PROVE  /\ IsMinutes(Takes(group), Len(group)) /\ Len(group) \in Nat
           /\ \A i \in 1..Len(group) : Takes(group)[i] =
                (IF i = 1 THEN 0 ELSE EstimateMinutes(Coord[group[i - 1]], Coord[group[i]])) + 60
  <1>n. PICK n : n = Len(group)
    OBVIOUS
  <1>1. n \in Nat /\ \A i \in 1..n : Coord[group[i]] \in Int
    BY <1>n, BuilderAssumption
  <1>2. \A i \in 2..n : EstimateMinutes(Coord[group[i - 1]], Coord[group[i]]) \in Nat
    <2> TAKE i \in 2..n
    <2>1. i \in 1..n /\ i - 1 \in 1..n
      BY <1>1
    <2>2. Coord[group[i - 1]] \in Int /\ Coord[group[i]] \in Int
      BY <1>1, <2>1
    <2> QED BY <2>2, Estimated
  <1>3. \A i \in 1..n : i # 1 => i \in 2..n
    BY <1>1
  <1>4. \A i \in 1..n : Takes(group)[i] =
          (IF i = 1 THEN 0 ELSE EstimateMinutes(Coord[group[i - 1]], Coord[group[i]])) + 60
    BY <1>n DEF Takes, DefaultStay
  <1>5. \A i \in 1..n : Takes(group)[i] \in Nat
    BY <1>2, <1>3, <1>4
  <1> QED BY <1>1, <1>4, <1>5, <1>n DEF IsMinutes

LEMMA FarIs ==
    ASSUME NEW a \in Places, NEW b \in Places
    PROVE  Far(a, b) \in Nat /\ EstimateMinutes(Coord[a], Coord[b]) \in Nat
  BY Estimated, BuilderAssumption DEF Far

(* A place that is appended to a group costs what Cost says.                *)
LEMMA TakesNext ==
    ASSUME NEW group \in Seq(Places), Len(group) >= 1, NEW x \in Places
    PROVE  LET next == Append(group, x) IN
           /\ Total(Len(next), Takes(next)) = Total(Len(group), Takes(group)) + Cost(group[Len(group)], x)
           /\ Cost(group[Len(group)], x) \in Nat /\ Total(Len(group), Takes(group)) \in Nat
  <1>g. PICK g : g = Append(group, x)
    OBVIOUS
  <1>n. PICK n : n = Len(group)
    OBVIOUS
  <1>1. /\ n \in Nat /\ n >= 1 /\ g \in Seq(Places) /\ Len(g) = n + 1 /\ g[n + 1] = x
        /\ \A i \in 1..n : g[i] = group[i] /\ group[i] \in Places
    BY <1>g, <1>n, AppendIs
  <1>2. IsMinutes(Takes(g), n + 1) /\ IsMinutes(Takes(group), n)
    BY <1>1, <1>n, TakesAre
  <1>3. IsMinutes(Takes(g), n)
    BY <1>1, <1>2 DEF IsMinutes
  <1>4. \A i \in 1..n : Takes(g)[i] = Takes(group)[i]
    <2> TAKE i \in 1..n
    <2>1. i \in 1..(n + 1) /\ (i # 1 => i - 1 \in 1..n)
      BY <1>1
    <2>2. Takes(g)[i] = (IF i = 1 THEN 0 ELSE EstimateMinutes(Coord[g[i - 1]], Coord[g[i]])) + 60
      BY <1>1, <2>1, TakesAre
    <2>3. Takes(group)[i] =
            (IF i = 1 THEN 0 ELSE EstimateMinutes(Coord[group[i - 1]], Coord[group[i]])) + 60
      BY <1>n, TakesAre
    <2> QED BY <1>1, <2>1, <2>2, <2>3
  <1>5. Total(n, Takes(g)) = Total(n, Takes(group))
    BY <1>1, <1>2, <1>3, <1>4, TotalCompare
  <1>6. Total(n + 1, Takes(g)) = Total(n, Takes(g)) + Takes(g)[n + 1]
    <2>1. n + 1 \in Nat /\ n + 1 # 0 /\ (n + 1) - 1 = n
      BY <1>1
    <2> QED BY <1>2, <2>1, TotalNext
  <1>7. Takes(g)[n + 1] = Cost(group[n], x)
    <2>1. n + 1 \in 1..(n + 1) /\ n + 1 # 1 /\ (n + 1) - 1 = n /\ n \in 1..n
      BY <1>1
    <2>2. Takes(g)[n + 1] = EstimateMinutes(Coord[g[n]], Coord[g[n + 1]]) + 60
      BY <1>1, <2>1, TakesAre
    <2> QED BY <1>1, <2>1, <2>2 DEF Cost, DefaultStay
  <1>8. Cost(group[n], x) \in Nat
    <2>1. n \in 1..n
      BY <1>1
    <2>2. EstimateMinutes(Coord[group[n]], Coord[x]) \in Nat
      BY <1>1, <2>1, FarIs
    <2> QED BY <2>2 DEF Cost, DefaultStay
  <1>9. Total(n, Takes(group)) \in Nat
    BY <1>1, <1>2, TotalNext
  <1> QED BY <1>1, <1>5, <1>6, <1>7, <1>8, <1>9, <1>g, <1>n

-----------------------------------------------------------------------------
(* One more place for a group, or none.                                     *)
GrowStep(available, s) ==
    LET last == s.group[Len(s.group)]
        i    == Nearest(Coord[last], s.pool)
    IN  IF \/ s.pool = <<>>
           \/ available # None /\ s.used + Cost(last, s.pool[i]) > available
        THEN s
        ELSE [group |-> Append(s.group, s.pool[i]),
              pool  |-> RemoveAt(s.pool, i),
              used  |-> s.used + Cost(last, s.pool[i])]

GrowBase(pool) == [group |-> <<Head(pool)>>, pool |-> Tail(pool), used |-> DefaultStay]

IsGrown(f, pool, available) ==
    f = [k \in 1..MaxPlaces |-> IF k = 1 THEN GrowBase(pool) ELSE GrowStep(available, f[k - 1])]

LEMMA GrowStarts ==
    ASSUME NEW pool \in Seq(Places), pool # <<>>, NEW available \in Limits
    PROVE  GrowBase(pool) \in Growing(pool, available)
  <1>n. PICK n : n = Len(pool)
    OBVIOUS
  <1>t. PICK t : t = Tail(pool)
    OBVIOUS
  <1>g. PICK g : g = <<Head(pool)>>
    OBVIOUS
  <1>1. n \in Nat /\ n >= 1 /\ DOMAIN pool = 1..n /\ Head(pool) = pool[1] /\ 1 \in 1..n
        /\ \A i \in 1..n : pool[i] \in Places
    BY <1>n
  <1>2. t \in Seq(Places) /\ Len(t) = n - 1 /\ \A i \in 1..(n - 1) : t[i] = pool[i + 1]
    BY <1>1, <1>n, <1>t
  <1>3. DOMAIN t = 1..(n - 1) /\ \A i \in 1..(n - 1) : i + 1 \in 1..n /\ i + 1 # 1
    BY <1>1, <1>2
  <1>4. IsInjective(pool) => \A i, j \in 1..n : pool[i] = pool[j] => i = j
    BY <1>1 DEF IsInjective
  <1>5. ASSUME IsInjective(pool) PROVE IsInjective(t)
    <2>1. \A i, j \in 1..(n - 1) : t[i] = t[j] => i = j
      <3> TAKE i, j \in 1..(n - 1)
      <3>1. t[i] = t[j] => i + 1 = j + 1
        BY <1>2, <1>3, <1>4, <1>5
      <3>2. i \in Int /\ j \in Int
        OBVIOUS
      <3> QED BY <3>1, <3>2
    <2> QED BY <1>3, <2>1 DEF IsInjective
  <1>6. g \in Seq(Places) /\ Len(g) = 1 /\ g[1] = pool[1] /\ DOMAIN g = 1..1
    BY <1>1, <1>g
  <1>7. ToSet(g) = {pool[1]}
    BY <1>6 DEF ToSet
  <1>8. /\ ToSet(t) \subseteq ToSet(pool) /\ pool[1] \in ToSet(pool)
        /\ IsInjective(pool) => pool[1] \notin ToSet(t)
    <2>1. pool[1] \in ToSet(pool)
      BY <1>1 DEF ToSet
    <2>2. ASSUME NEW i \in 1..(n - 1)
          PROVE  i + 1 \in 1..n /\ t[i] = pool[i + 1] /\ (IsInjective(pool) => t[i] # pool[1])
      BY <1>1, <1>2, <1>3, <1>4
    <2>3. ToSet(t) \subseteq ToSet(pool)
      BY <1>1, <1>3, <2>2 DEF ToSet
    <2>4. IsInjective(pool) => pool[1] \notin ToSet(t)
      BY <1>3, <2>2 DEF ToSet
    <2> QED BY <2>1, <2>3, <2>4
  <1>9. Straight(g) /\ Ahead(g, t)
    <2>1. 2..Len(g) = {}
      BY <1>6
    <2> QED BY <2>1 DEF Straight, Ahead
  <1>10. Total(Len(g), Takes(g)) = 60
    <2>1. IsMinutes(Takes(g), 1) /\ Takes(g)[1] = 60
      <3>1. 1 \in 1..Len(g)
        BY <1>6
      <3>2. IsMinutes(Takes(g), Len(g)) /\ Takes(g)[1] = 0 + 60
        BY <1>6, <3>1, TakesAre
      <3> QED BY <1>6, <3>2
    <2>2. Total(1, Takes(g)) = Total(0, Takes(g)) + Takes(g)[1]
      BY <2>1, TotalNext
    <2>3. IsMinutes(Takes(g), 0)
      BY DEF IsMinutes
    <2>4. Total(0, Takes(g)) = 0
      BY <2>3, TotalNext
    <2> QED BY <1>6, <2>1, <2>2, <2>4
  <1>11. GroupFits(g, available)
    BY <1>10 DEF GroupFits, DefaultStay
  <1>12. GrowBase(pool) = [group |-> g, pool |-> t, used |-> 60]
    BY <1>g, <1>t DEF GrowBase, DefaultStay
  <1>13. GrowBase(pool) \in GrowStates
    BY <1>2, <1>6, <1>12 DEF GrowStates
  <1>14. /\ Len(g) >= 1 /\ ToSet(g) \subseteq ToSet(pool) /\ ToSet(t) \subseteq ToSet(pool)
         /\ IsInjective(pool) => \A x \in ToSet(t) : x \notin ToSet(g)
    BY <1>6, <1>7, <1>8
  <1>b. PICK b : b = GrowBase(pool)
    OBVIOUS
  <1>15. b \in GrowStates /\ b.group = g /\ b.pool = t /\ b.used = 60
    BY <1>12, <1>13, <1>b
  <1>16. b \in Growing(pool, available)
    BY <1>5, <1>9, <1>10, <1>11, <1>14, <1>15 DEF Growing
  <1> QED BY <1>16, <1>b

LEMMA GrowingIs ==
    ASSUME NEW pool, NEW available, NEW g \in Seq(Places), NEW r \in Seq(Places), NEW u \in Nat,
           Len(g) >= 1, ToSet(g) \subseteq ToSet(pool), ToSet(r) \subseteq ToSet(pool),
           IsInjective(pool) => IsInjective(r) /\ \A x \in ToSet(r) : x \notin ToSet(g),
           Straight(g), Ahead(g, r), u = Total(Len(g), Takes(g)), GroupFits(g, available)
    PROVE  [group |-> g, pool |-> r, used |-> u] \in Growing(pool, available)
  <1>1. [group |-> g, pool |-> r, used |-> u] \in GrowStates
    BY DEF GrowStates
  <1> QED BY <1>1 DEF Growing

LEMMA GrowGoesOn ==
    ASSUME NEW pool \in Seq(Places), NEW available \in Limits, NEW s \in Growing(pool, available)
    PROVE  GrowStep(available, s) \in Growing(pool, available)
  <1>g. PICK g : g = s.group
    OBVIOUS
  <1>r. PICK r : r = s.pool
    OBVIOUS
  <1>n. PICK n : n = Len(g)
    OBVIOUS
  <1>i. PICK i : i = Nearest(Coord[g[n]], r)
    OBVIOUS
  <1>1. /\ g \in Seq(Places) /\ r \in Seq(Places) /\ s.used \in Nat /\ s \in GrowStates
        /\ n \in Nat /\ n >= 1
        /\ ToSet(g) \subseteq ToSet(pool) /\ ToSet(r) \subseteq ToSet(pool)
        /\ IsInjective(pool) => IsInjective(r) /\ \A x \in ToSet(r) : x \notin ToSet(g)
        /\ Straight(g) /\ Ahead(g, r) /\ GroupFits(g, available)
        /\ s.used = Total(n, Takes(g))
    BY <1>g, <1>r, <1>n DEF Growing, GrowStates
  <1> DEFINE Stops1 == r = <<>> \/ (available # None /\ s.used + Cost(g[n], r[i]) > available)
  <1>2. GrowStep(available, s) =
          IF Stops1 THEN s
          ELSE [group |-> Append(g, r[i]), pool |-> RemoveAt(r, i), used |-> s.used + Cost(g[n], r[i])]
    BY <1>g, <1>r, <1>n, <1>i DEF GrowStep
  <1>3. CASE Stops1
    BY <1>2, <1>3
  <1>4. CASE ~Stops1
    <2>x. PICK x : x = r[i]
      OBVIOUS
    <2>h. PICK h : h = Append(g, x)
      OBVIOUS
    <2>q. PICK q : q = RemoveAt(r, i)
      OBVIOUS
    <2>u. PICK u : u = s.used + Cost(g[n], x)
      OBVIOUS
    <2>1. GrowStep(available, s) = [group |-> h, pool |-> q, used |-> u]
      BY <1>2, <1>4, <2>x, <2>h, <2>q, <2>u
    <2>2. r # <<>> /\ (available # None => ~ (u > available))
      BY <1>4, <2>x, <2>u
    <2>3. n \in 1..n /\ g[n] \in Places /\ Coord[g[n]] \in Int
      BY <1>1, <1>n, BuilderAssumption
    <2>4. /\ i \in 1..Len(r)
          /\ \A j \in 1..Len(r) : Distance(Coord[g[n]], Coord[r[i]]) =< Distance(Coord[g[n]], Coord[r[j]])
      BY <1>1, <1>i, <2>2, <2>3, NearestIs
    <2>5. x \in Places /\ x \in ToSet(r)
      BY <1>1, <2>4, <2>x, ElementsOf
    <2>6. /\ h \in Seq(Places) /\ Len(h) = n + 1 /\ h[n + 1] = x
          /\ \A j \in 1..n : h[j] = g[j] /\ g[j] \in Places
          /\ ToSet(h) = ToSet(g) \cup {x}
      BY <1>1, <1>n, <2>5, <2>h, AppendIs, ElementsOf
    <2>7. /\ q \in Seq(Places) /\ ToSet(q) \subseteq ToSet(r)
          /\ IsInjective(pool) => IsInjective(q) /\ x \notin ToSet(q)
      BY <1>1, <2>4, <2>q, <2>x, RemoveIs, RestOf
    <2>8. u = Total(n + 1, Takes(h)) /\ u \in Nat
      <3>1. /\ Total(Len(h), Takes(h)) = Total(n, Takes(g)) + Cost(g[n], x)
            /\ Cost(g[n], x) \in Nat /\ Total(n, Takes(g)) \in Nat
        BY <1>1, <1>n, <2>5, <2>h, TakesNext
      <3> QED BY <1>1, <2>6, <2>u, <3>1
    <2>9. /\ ToSet(h) \subseteq ToSet(pool) /\ ToSet(q) \subseteq ToSet(pool)
          /\ IsInjective(pool) => \A y \in ToSet(q) : y \notin ToSet(h)
      BY <1>1, <2>5, <2>6, <2>7
    <2>10. \A y \in ToSet(r) : Far(g[n], x) =< Far(g[n], y)
      BY <1>1, <2>4, <2>5, <2>x, ElementsOf DEF Far
    <2>11. Straight(h)
      <3> SUFFICES ASSUME NEW k \in 2..(n + 1), NEW j \in k..(n + 1)
                   PROVE  Far(h[k - 1], h[k]) =< Far(h[k - 1], h[j])
        BY <2>6 DEF Straight
      <3>1. k - 1 \in 1..n /\ (k \in 2..n \/ k = n + 1) /\ (j \in k..n \/ j = n + 1)
        BY <1>1
      <3>2. h[k - 1] = g[k - 1] /\ g[k - 1] \in Places
        BY <2>6, <3>1
      <3>3. CASE k \in 2..n /\ j \in k..n
        <4>1. k \in 1..n /\ j \in 1..n
          BY <1>1, <3>3
        <4>2. Far(g[k - 1], g[k]) =< Far(g[k - 1], g[j])
          BY <1>1, <1>n, <3>3 DEF Straight
        <4> QED BY <2>6, <3>2, <4>1, <4>2
      <3>4. CASE k \in 2..n /\ j = n + 1
        <4>1. k \in 1..n
          BY <1>1, <3>4
        <4>2. Far(g[k - 1], g[k]) =< Far(g[k - 1], x)
          BY <1>1, <1>n, <2>5, <3>4 DEF Ahead
        <4> QED BY <2>6, <3>2, <3>4, <4>1, <4>2
      <3>5. CASE k = n + 1
        <4>1. j = n + 1 /\ h[k] = x /\ h[j] = x
          BY <1>1, <2>6, <3>5
        <4>2. Far(h[k - 1], x) \in Nat
          BY <2>5, <3>2, FarIs
        <4> QED BY <4>1, <4>2
      <3> QED BY <3>1, <3>3, <3>4, <3>5
    <2>12. Ahead(h, q)
      <3> SUFFICES ASSUME NEW k \in 2..(n + 1), NEW y \in ToSet(q)
                   PROVE  Far(h[k - 1], h[k]) =< Far(h[k - 1], y)
        BY <2>6 DEF Ahead
      <3>1. k - 1 \in 1..n /\ (k \in 2..n \/ k = n + 1) /\ y \in ToSet(r)
        BY <1>1, <2>7
      <3>2. CASE k \in 2..n
        <4>1. k \in 1..n
          BY <1>1, <3>2
        <4>2. Far(g[k - 1], g[k]) =< Far(g[k - 1], y)
          BY <1>1, <1>n, <3>1, <3>2 DEF Ahead
        <4> QED BY <2>6, <3>1, <4>1, <4>2
      <3>3. CASE k = n + 1
        <4>1. k - 1 = n /\ h[k - 1] = g[n] /\ h[k] = x
          BY <1>1, <2>3, <2>6, <3>3
        <4> QED BY <2>10, <3>1, <4>1
      <3> QED BY <3>1, <3>2, <3>3
    <2>13. GroupFits(h, available)
      <3>1. available # None => available \in Nat /\ u =< available
        BY <2>2, <2>8 DEF Limits
      <3> QED BY <2>6, <2>8, <3>1 DEF GroupFits
    <2>14. Len(h) >= 1
      BY <1>1, <2>6
    <2>15. u = Total(Len(h), Takes(h))
      BY <2>6, <2>8
    <2>16. IsInjective(pool) => IsInjective(q) /\ \A y \in ToSet(q) : y \notin ToSet(h)
      BY <2>7, <2>9
    <2>17. /\ h \in Seq(Places) /\ q \in Seq(Places) /\ u \in Nat
           /\ ToSet(h) \subseteq ToSet(pool) /\ ToSet(q) \subseteq ToSet(pool)
      BY <2>6, <2>7, <2>8, <2>9
    <2>18. [group |-> h, pool |-> q, used |-> u] \in Growing(pool, available)
      BY <2>11, <2>12, <2>13, <2>14, <2>15, <2>16, <2>17, GrowingIs
    <2> QED BY <2>1, <2>18
  <1> QED BY <1>3, <1>4

LEMMA GrowIs ==
    ASSUME NEW pool \in Seq(Places), pool # <<>>, NEW available \in Limits
    PROVE  Grow(pool, available) \in Growing(pool, available)
  <1> DEFINE G == Growing(pool, available)
             base == GrowBase(pool)
             step == [y \in (1..(MaxPlaces - 1)) \X G |-> GrowStep(available, y[2])]
  <1>1. MaxPlaces \in Nat /\ MaxPlaces - 1 \in Nat /\ MaxPlaces \in 1..MaxPlaces
    BY BuilderAssumption
  <1>2. base \in G
    BY GrowStarts
  <1>3. \A s \in G : GrowStep(available, s) \in G
    BY GrowGoesOn
  <1> HIDE DEF G, base
  <1>4. step \in [(1..(MaxPlaces - 1)) \X G -> G]
    BY <1>3
  <1>5. PICK f \in [0..(MaxPlaces - 1) -> G] : Recursive(f, MaxPlaces - 1, base, step)
    <2> HIDE DEF step
    <2> QED BY <1>1, <1>2, <1>4, RecursionExists
  <1>6. \A k \in 0..(MaxPlaces - 1) : f[k] = IF k = 0 THEN base ELSE GrowStep(available, f[k - 1])
    <2> TAKE k \in 0..(MaxPlaces - 1)
    <2>1. f[k] = IF k = 0 THEN base ELSE step[<<k, f[k - 1]>>]
      BY <1>5 DEF Recursive
    <2>2. k # 0 => k \in 1..(MaxPlaces - 1) /\ f[k - 1] \in G
      BY <1>1, <1>5
    <2> QED BY <2>1, <2>2
  <1> DEFINE e == [k \in 1..MaxPlaces |-> f[k - 1]]
  <1>7. ASSUME NEW k \in 1..MaxPlaces
        PROVE  e[k] = IF k = 1 THEN base ELSE GrowStep(available, e[k - 1])
    <2>1. /\ k - 1 \in 0..(MaxPlaces - 1) /\ (k - 1 = 0 <=> k = 1)
          /\ k # 1 => k - 1 \in 1..MaxPlaces
      BY <1>1
    <2>2. f[k - 1] = IF k - 1 = 0 THEN base ELSE GrowStep(available, f[(k - 1) - 1])
      BY <1>6, <2>1
    <2>3. e[k] = f[k - 1] /\ (k # 1 => e[k - 1] = f[(k - 1) - 1])
      BY <2>1
    <2> QED BY <2>1, <2>2, <2>3
  <1>8. e = [k \in 1..MaxPlaces |-> e[k]]
    OBVIOUS
  <1> HIDE DEF e
  <1>9. e = [k \in 1..MaxPlaces |-> IF k = 1 THEN base ELSE GrowStep(available, e[k - 1])]
    BY <1>7, <1>8, Zenon
  <1>10. IsGrown(e, pool, available)
    BY <1>9 DEF IsGrown, base
  <1>11. PICK g : g = CHOOSE h : IsGrown(h, pool, available)
    OBVIOUS
  <1>12. IsGrown(g, pool, available)
    BY <1>10, <1>11
  <1>13. Grow(pool, available) = g[MaxPlaces]
    <2>1. Grow(pool, available) = (CHOOSE h : IsGrown(h, pool, available))[MaxPlaces]
      BY Zenon DEF Grow, IsGrown, GrowBase, GrowStep
    <2> QED BY <1>11, <2>1
  <1>14. g[MaxPlaces] \in G
    <2> DEFINE S == {k \in 0..(MaxPlaces - 1) : g[k + 1] \in G}
    <2>1. \A k \in 1..MaxPlaces : g[k] = IF k = 1 THEN base ELSE GrowStep(available, g[k - 1])
      BY <1>12 DEF IsGrown, base
    <2>2. 0 \in S
      BY <1>1, <1>2, <2>1
    <2>3. ASSUME NEW k \in 1..(MaxPlaces - 1), k - 1 \in S PROVE k \in S
      <3>1. /\ k \in 0..(MaxPlaces - 1) /\ k + 1 \in 1..MaxPlaces /\ k + 1 # 1
            /\ (k + 1) - 1 = k /\ (k - 1) + 1 = k
        BY <1>1
      <3>2. g[k] \in G
        BY <2>3, <3>1
      <3>3. g[k + 1] = GrowStep(available, g[k])
        BY <2>1, <3>1
      <3> QED BY <1>3, <3>1, <3>2, <3>3
    <2>4. \A k \in 0..(MaxPlaces - 1) : k \in S
      <3> HIDE DEF S
      <3> QED BY <1>1, <2>2, <2>3, UpTo
    <2>5. MaxPlaces - 1 \in S /\ (MaxPlaces - 1) + 1 = MaxPlaces
      BY <1>1, <2>4
    <2> QED BY <2>5
  <1> QED BY <1>13, <1>14 DEF G

-----------------------------------------------------------------------------
(* One group after the other, of what the groups before have left.          *)
MadeStep(available, s) ==
    LET g == Grow(s.pool, available)
    IN  IF s.pool = <<>> THEN s
        ELSE [groups |-> Append(s.groups, g.group), pool |-> g.pool]

IsMade(f, ranked, available) ==
    f = [k \in 0..MaxCourses |->
           IF k = 0 THEN [groups |-> <<>>, pool |-> ranked] ELSE MadeStep(available, f[k - 1])]

GoodGroups(groups, available) ==
    \A c \in 1..Len(groups) :
        /\ Len(groups[c]) >= 1 /\ Straight(groups[c]) /\ GroupFits(groups[c], available)

Apart(groups) ==
    \A c, d \in 1..Len(groups) :
        c < d => \A x \in ToSet(groups[d]) : x \notin ToSet(groups[c])

MadeStates == [groups : Seq(Seq(Places)), pool : Seq(Places)]

LeftOver(groups, pool) ==
    \A c \in 1..Len(groups) : \A x \in ToSet(pool) : x \notin ToSet(groups[c])

Making(ranked, available, k) ==
    {s \in MadeStates :
        /\ Len(s.groups) =< k /\ GoodGroups(s.groups, available)
        /\ IsInjective(ranked) =>
              IsInjective(s.pool) /\ Apart(s.groups) /\ LeftOver(s.groups, s.pool)}

LEMMA MadeGoesOn ==
    ASSUME NEW ranked, NEW available \in Limits, NEW k \in Nat,
           NEW s \in Making(ranked, available, k)
    PROVE  MadeStep(available, s) \in Making(ranked, available, k + 1)
  <1>g. PICK g : g = s.groups
    OBVIOUS
  <1>r. PICK r : r = s.pool
    OBVIOUS
  <1>n. PICK n : n = Len(g)
    OBVIOUS
  <1>1. /\ g \in Seq(Seq(Places)) /\ r \in Seq(Places) /\ s \in MadeStates
        /\ n =< k /\ GoodGroups(g, available)
        /\ IsInjective(ranked) => IsInjective(r) /\ Apart(g) /\ LeftOver(g, r)
    BY <1>g, <1>r, <1>n DEF Making, MadeStates
  <1>2. n \in Nat
    BY <1>1, <1>n
  <1>3. CASE r = <<>>
    <2>1. MadeStep(available, s) = s
      BY <1>3, <1>r DEF MadeStep
    <2>2. n =< k + 1
      BY <1>1, <1>2
    <2>3. s \in Making(ranked, available, k + 1)
      BY <1>1, <1>g, <1>r, <1>n, <2>2 DEF Making
    <2> QED BY <2>1, <2>3
  <1>4. CASE r # <<>>
    <2>w. PICK w : w = Grow(r, available)
      OBVIOUS
    <2>h. PICK h : h = Append(g, w.group)
      OBVIOUS
    <2>1. MadeStep(available, s) = [groups |-> h, pool |-> w.pool]
      BY <1>4, <1>g, <1>r, <2>w, <2>h DEF MadeStep
    <2>2. w \in Growing(r, available)
      BY <1>1, <1>4, <2>w, GrowIs
    <2>3. /\ w.group \in Seq(Places) /\ w.pool \in Seq(Places)
          /\ Len(w.group) >= 1
          /\ ToSet(w.group) \subseteq ToSet(r) /\ ToSet(w.pool) \subseteq ToSet(r)
          /\ IsInjective(r) => /\ IsInjective(w.pool)
                              /\ \A x \in ToSet(w.pool) : x \notin ToSet(w.group)
          /\ Straight(w.group) /\ GroupFits(w.group, available)
      BY <2>2 DEF Growing, GrowStates
    <2>4. /\ h \in Seq(Seq(Places)) /\ Len(h) = n + 1 /\ h[n + 1] = w.group
          /\ \A c \in 1..n : h[c] = g[c]
      <3> DEFINE X == Seq(Places)
      <3>1. g \in Seq(X) /\ w.group \in X
        BY <1>1, <2>3
      <3> HIDE DEF X
      <3>2. /\ Append(g, w.group) \in Seq(X) /\ Len(Append(g, w.group)) = n + 1
            /\ Append(g, w.group)[n + 1] = w.group /\ \A c \in 1..n : Append(g, w.group)[c] = g[c]
        BY <1>n, <3>1, AppendIs
      <3> QED BY <2>h, <3>2 DEF X
    <2>5. \A c \in 1..(n + 1) : c \in 1..n \/ c = n + 1
      BY <1>2
    <2>6. ASSUME NEW c \in 1..(n + 1)
          PROVE  Len(h[c]) >= 1 /\ Straight(h[c]) /\ GroupFits(h[c], available)
      <3>1. CASE c \in 1..n
        BY <1>1, <1>n, <2>4, <3>1 DEF GoodGroups
      <3>2. CASE c = n + 1
        BY <2>3, <2>4, <3>2
      <3> QED BY <2>5, <3>1, <3>2
    <2>7. ASSUME IsInjective(ranked), NEW c \in 1..(n + 1), NEW d \in 1..(n + 1), c < d,
                 NEW x \in ToSet(h[d])
          PROVE  x \notin ToSet(h[c])
      <3>1. c \in 1..n
        BY <1>2, <2>7
      <3>2. CASE d \in 1..n
        BY <1>1, <1>n, <2>4, <2>7, <3>1, <3>2 DEF Apart
      <3>3. CASE d = n + 1
        <4>1. x \in ToSet(r)
          BY <2>3, <2>4, <2>7, <3>3
        <4> QED BY <1>1, <1>n, <2>4, <2>7, <3>1, <4>1 DEF LeftOver
      <3> QED BY <2>5, <3>2, <3>3
    <2>8. GoodGroups(h, available) /\ (IsInjective(ranked) => Apart(h))
      <3>1. GoodGroups(h, available)
        BY <2>4, <2>6 DEF GoodGroups
      <3>2. IsInjective(ranked) => Apart(h)
        BY <2>4, <2>7 DEF Apart
      <3> QED BY <3>1, <3>2
    <2>9. IsInjective(ranked) => IsInjective(w.pool) /\ LeftOver(h, w.pool)
      <3> SUFFICES ASSUME IsInjective(ranked), NEW c \in 1..(n + 1), NEW x \in ToSet(w.pool)
                   PROVE  IsInjective(w.pool) /\ x \notin ToSet(h[c])
        <4>1. IsInjective(ranked) => IsInjective(w.pool)
          BY <1>1, <2>3
        <4> QED BY <2>4, <4>1 DEF LeftOver
      <3>1. x \in ToSet(r) /\ IsInjective(r) /\ IsInjective(w.pool)
        BY <1>1, <2>3
      <3>2. CASE c \in 1..n
        BY <1>1, <1>n, <2>4, <3>1, <3>2 DEF LeftOver
      <3>3. CASE c = n + 1
        BY <2>3, <2>4, <3>1, <3>3
      <3> QED BY <2>5, <3>1, <3>2, <3>3
    <2>b. PICK b : b = MadeStep(available, s)
      OBVIOUS
    <2>10. b \in MadeStates /\ b.groups = h /\ b.pool = w.pool
      BY <2>1, <2>3, <2>4, <2>b DEF MadeStates
    <2>11. n + 1 =< k + 1
      BY <1>1, <1>2
    <2>12. b \in Making(ranked, available, k + 1)
      BY <2>3, <2>4, <2>8, <2>9, <2>10, <2>11 DEF Making
    <2> QED BY <2>12, <2>b
  <1> QED BY <1>3, <1>4

LEMMA GroupsAre ==
    ASSUME NEW ranked \in Seq(Places), NEW available \in Limits
    PROVE  LET groups == RuleBasedGroups(ranked, available) IN
           /\ groups \in Seq(Seq(Places)) /\ Len(groups) =< MaxCourses
           /\ GoodGroups(groups, available) /\ (IsInjective(ranked) => Apart(groups))
  <1> DEFINE n == MaxCourses
             X == [k \in 0..n |-> Making(ranked, available, k)]
             base == [groups |-> <<>>, pool |-> ranked]
             step == [y \in (1..n) \X MadeStates |-> MadeStep(available, y[2])]
  <1>1. n \in Nat
    BY BuilderAssumption
  <1> HIDE DEF n
  <1>2. \A k \in 1..n : k \in 0..n /\ k - 1 \in 0..n /\ k - 1 \in Nat /\ (k - 1) + 1 = k /\ k # 0
    BY <1>1
  <1>3. base \in Making(ranked, available, 0)
    <2>1. base \in MadeStates /\ base.groups = <<>> /\ base.pool = ranked
      BY DEF MadeStates
    <2>2. Len(<<>>) = 0 /\ 1..Len(<<>>) = {}
      OBVIOUS
    <2>3. GoodGroups(<<>>, available) /\ Apart(<<>>) /\ LeftOver(<<>>, ranked)
      BY <2>2 DEF GoodGroups, Apart, LeftOver
    <2> HIDE DEF base
    <2> QED BY <2>1, <2>2, <2>3 DEF Making
  <1>4. base \in X[0]
    BY <1>1, <1>3
  <1>5. ASSUME NEW k \in 1..n, NEW x \in Making(ranked, available, k - 1)
        PROVE  MadeStep(available, x) \in Making(ranked, available, k)
    <2>1. MadeStep(available, x) \in Making(ranked, available, (k - 1) + 1)
      BY <1>2, MadeGoesOn
    <2> QED BY <1>2, <2>1
  <1>6. ASSUME NEW k \in 1..n, NEW x \in X[k - 1]
        PROVE  step[<<k, x>>] = MadeStep(available, x) /\ step[<<k, x>>] \in X[k]
    <2>1. x \in Making(ranked, available, k - 1)
      BY <1>2
    <2>2. x \in MadeStates /\ MadeStep(available, x) \in Making(ranked, available, k)
      BY <1>5, <2>1 DEF Making
    <2> QED BY <1>2, <2>2
  <1> HIDE DEF X, base, step
  <1>7. PICK f : Recursive(f, n, base, step) /\ \A k \in 0..n : f[k] \in X[k]
    BY <1>1, <1>4, <1>6, RecursionIn
  <1>8. ASSUME NEW k \in 0..n PROVE f[k] = IF k = 0 THEN base ELSE MadeStep(available, f[k - 1])
    <2>1. f[k] = IF k = 0 THEN base ELSE step[<<k, f[k - 1]>>]
      BY <1>7 DEF Recursive
    <2>2. k # 0 => k \in 1..n /\ f[k - 1] \in X[k - 1]
      BY <1>1, <1>7
    <2> QED BY <1>6, <2>1, <2>2
  <1>9. f = [k \in 0..n |-> f[k]]
    BY <1>7 DEF Recursive
  <1>10. f = [k \in 0..n |-> IF k = 0 THEN base ELSE MadeStep(available, f[k - 1])]
    BY <1>8, <1>9, Zenon
  <1>11. IsMade(f, ranked, available)
    BY <1>10 DEF IsMade, base, n
  <1>12. PICK g : g = CHOOSE h : IsMade(h, ranked, available)
    OBVIOUS
  <1>13. IsMade(g, ranked, available)
    BY <1>11, <1>12
  <1>14. RuleBasedGroups(ranked, available) = g[n].groups
    <2>1. RuleBasedGroups(ranked, available) = (CHOOSE h : IsMade(h, ranked, available))[MaxCourses].groups
      BY Zenon DEF RuleBasedGroups, IsMade, MadeStep
    <2> QED BY <1>12, <2>1 DEF n
  <1>15. g[n] \in Making(ranked, available, n)
    <2> DEFINE S == {k \in 0..n : g[k] \in Making(ranked, available, k)}
    <2>1. \A k \in 0..n : g[k] = IF k = 0 THEN base ELSE MadeStep(available, g[k - 1])
      BY <1>13 DEF IsMade, base, n
    <2>2. 0 \in S
      BY <1>1, <1>3, <2>1
    <2>3. ASSUME NEW k \in 1..n, k - 1 \in S PROVE k \in S
      <3>1. MadeStep(available, g[k - 1]) \in Making(ranked, available, k)
        BY <1>5, <2>3
      <3> QED BY <1>2, <2>1, <3>1
    <2>4. \A k \in 0..n : k \in S
      <3> HIDE DEF S
      <3> QED BY <1>1, <2>2, <2>3, UpTo
    <2> QED BY <1>1, <2>4
  <1> QED BY <1>14, <1>15 DEF Making, MadeStates, n

(* The drafts of the rules are picks, and stay in the order of their group. *)
DraftOf(p, group) ==
    /\ Len(p) = Len(group)
    /\ \A k \in 1..Len(group) : p[k].place = group[k] /\ p[k].stay = DefaultStay

LEMMA FromRulesIs ==
    ASSUME TypeInv
    PROVE  /\ FromRules \in Seq(PickSeqs)
           /\ req.origin = None =>
                [c \in DOMAIN FromRules |-> OrderByDistance(FromRules[c], req.origin)] = FromRules
           /\ LET groups == RuleBasedGroups(req.ranked, req.available) IN
              /\ Len(FromRules) = Len(groups) /\ Len(groups) \in Nat
              /\ \A c \in 1..Len(groups) : DraftOf(FromRules[c], groups[c])
  <1>g. PICK groups : groups = RuleBasedGroups(req.ranked, req.available)
    OBVIOUS
  <1>n. PICK n : n = Len(groups)
    OBVIOUS
  <1>1. groups \in Seq(Seq(Places)) /\ GoodGroups(groups, req.available)
    BY <1>g, RequestIs, GroupsAre
  <1>2. n \in Nat /\ DOMAIN groups = 1..n /\ \A c \in 1..n : groups[c] \in Seq(Places)
    BY <1>1, <1>n
  <1>d. PICK drafts : drafts = FromRules
    OBVIOUS
  <1>3. drafts = [c \in 1..n |->
                    [k \in DOMAIN groups[c] |-> [place |-> groups[c][k], stay |-> DefaultStay]]]
    BY <1>2, <1>d, <1>g DEF FromRules
  <1>4. ASSUME NEW c \in 1..n
        PROVE  /\ drafts[c] \in PickSeqs /\ Len(drafts[c]) = Len(groups[c])
               /\ \A k \in 1..Len(groups[c]) : drafts[c][k].place = groups[c][k]
               /\ DraftOf(drafts[c], groups[c])
    <2>m. PICK m : m = Len(groups[c])
      OBVIOUS
    <2>1. m \in Nat /\ DOMAIN groups[c] = 1..m /\ \A k \in 1..m : groups[c][k] \in Places
      BY <1>2, <2>m
    <2>2. drafts[c] = [k \in 1..m |-> [place |-> groups[c][k], stay |-> DefaultStay]]
      BY <1>3, <2>1
    <2>3. \A k \in 1..m : [place |-> groups[c][k], stay |-> DefaultStay] \in PickType
      BY <2>1 DEF PickType, DefaultStay
    <2>4. drafts[c] \in PickSeqs /\ Len(drafts[c]) = m
      BY <2>1, <2>2, <2>3 DEF PickSeqs
    <2>5. \A k \in 1..m : drafts[c][k].place = groups[c][k] /\ drafts[c][k].stay = DefaultStay
      BY <2>2
    <2> QED BY <2>4, <2>5, <2>m DEF DraftOf
  <1>5. drafts \in Seq(PickSeqs) /\ DOMAIN drafts = 1..n
    <2>1. \A c \in 1..n : drafts[c] \in PickSeqs
      BY <1>4
    <2> QED BY <1>2, <1>3, <2>1
  <1>6. ASSUME req.origin = None, NEW c \in 1..n
        PROVE  OrderByDistance(drafts[c], req.origin) = drafts[c]
    <2>p. PICK p : p = drafts[c]
      OBVIOUS
    <2>1. p \in PickSeqs /\ Len(p) = Len(groups[c]) /\ Len(p) \in Nat
          /\ \A k \in 1..Len(p) : p[k].place = groups[c][k]
      BY <1>4, <2>p, PickSeqIs
    <2>2. ASSUME NEW k \in 2..Len(p), NEW j \in k..Len(p)
          PROVE  Distance(Coord[p[k - 1].place], Coord[p[k].place])
                    =< Distance(Coord[p[k - 1].place], Coord[p[j].place])
      <3>1. k - 1 \in 1..Len(p) /\ k \in 1..Len(p) /\ j \in 1..Len(p)
        BY <2>1
      <3>2. Far(groups[c][k - 1], groups[c][k]) =< Far(groups[c][k - 1], groups[c][j])
        BY <1>1, <1>n, <2>1 DEF GoodGroups, Straight
      <3> QED BY <2>1, <3>1, <3>2 DEF Far
    <2>3. None \in Int \cup {None}
      OBVIOUS
    <2>4. OrderByDistance(p, None) = p
      BY <2>1, <2>2, <2>3, OrderIs
    <2> QED BY <1>6, <2>4, <2>p
  <1>7. ASSUME req.origin = None
        PROVE  [c \in DOMAIN drafts |-> OrderByDistance(drafts[c], req.origin)] = drafts
    <2>1. drafts = [c \in 1..n |-> drafts[c]]
      BY <1>3
    <2> QED BY <1>5, <1>6, <1>7, <2>1, Zenon
  <1>8. Len(drafts) = n
    BY <1>2, <1>3
  <1>9. \A c \in 1..n : DraftOf(drafts[c], groups[c])
    BY <1>4
  <1> QED BY <1>2, <1>5, <1>7, <1>8, <1>9, <1>d, <1>g, <1>n

-----------------------------------------------------------------------------
(* Groups of the rules that need no cut.                                    *)
LEMMA WholeIs ==
    ASSUME TypeInv, NEW c \in 1..Len(plans), NEW group \in Seq(Places),
           DraftOf(plans[c], group), Len(group) >= 1, GroupFits(group, req.available),
           req.origin = None, req.available # None => DefaultStay =< req.available,
           \A l \in AllLegs : Minutes(l) =< EstimateMinutes(l[1], l[2])
    PROVE  /\ Built(c) # None /\ Len(Built(c).places) = Len(plans[c])
           /\ DOMAIN Built(c).places = 1..Len(group)
           /\ \A i \in 1..Len(group) : Built(c).places[i].place = group[i]
  <1>p. PICK p : p = plans[c]
    OBVIOUS
  <1>t. PICK travel : travel = TravelTimes(p)
    OBVIOUS
  <1>n. PICK n : n = Len(p)
    OBVIOUS
  <1>b. PICK takes : takes = [i \in 1..n |-> travel[i] + p[i].stay]
    OBVIOUS
  <1>1. c \in DOMAIN plans /\ p \in PickSeqs
    BY <1>p DEF TypeInv
  <1>2. /\ n \in Nat /\ n >= 1 /\ DOMAIN p = 1..n /\ Len(group) = n
        /\ \A i \in 1..n : /\ p[i] \in PickType /\ p[i].stay = 60 /\ p[i].place = group[i]
    BY <1>1, <1>n, <1>p, PickSeqIs DEF DraftOf, DefaultStay
  <1>3. /\ travel \in [1..n -> Nat]
        /\ \A i \in 1..n : travel[i] = LET l == Legs(p, req.origin)[i]
                                       IN  IF l = None THEN 0 ELSE Minutes(l)
    BY <1>1, <1>n, <1>t, TravelIs
  <1>4. ASSUME NEW i \in 1..n
        PROVE  /\ takes[i] = travel[i] + p[i].stay /\ takes[i] \in Nat
               /\ Takes(group)[i] \in Nat /\ takes[i] =< Takes(group)[i]
    <2>1. takes[i] = travel[i] + 60 /\ travel[i] \in Nat /\ takes[i] = travel[i] + p[i].stay
      BY <1>2, <1>3, <1>b
    <2>2. /\ Takes(group)[i] \in Nat
          /\ Takes(group)[i] =
               (IF i = 1 THEN 0 ELSE EstimateMinutes(Coord[group[i - 1]], Coord[group[i]])) + 60
      BY <1>2, TakesAre DEF IsMinutes
    <2>l. PICK l : l = Legs(p, req.origin)[i]
      OBVIOUS
    <2>3. travel[i] = IF l = None THEN 0 ELSE Minutes(l)
      BY <1>3, <2>l
    <2>4. \/ i = 1 /\ l = None
          \/ /\ i > 1 /\ l # None
             /\ l = <<IF i = 1 THEN req.origin ELSE Coord[p[i - 1].place], Coord[p[i].place]>>
      BY <1>1, <1>n, <2>l, LegIs
    <2>5. CASE i = 1 /\ l = None
      BY <2>1, <2>2, <2>3, <2>5
    <2>6. CASE i > 1 /\ l # None
      <3>1. i - 1 \in 1..n /\ i # 1 /\ i \in 1..n
        BY <1>2, <2>6
      <3>2. l = <<Coord[group[i - 1]], Coord[group[i]]>>
        BY <1>2, <2>4, <2>6, <3>1
      <3>3. l \in AllLegs
        <4>1. DOMAIN Legs(p, req.origin) = 1..n
          BY <1>1, <1>n, LegIs
        <4>2. l \in LegsOf(p)
          BY <2>6, <2>l, <4>1 DEF LegsOf, ToSet
        <4> QED BY <1>1, <1>p, <4>2 DEF AllLegs
      <3>4. Minutes(l) =< EstimateMinutes(l[1], l[2])
        BY <3>3
      <3>5. Minutes(l) =< EstimateMinutes(Coord[group[i - 1]], Coord[group[i]])
        BY <3>2, <3>4
      <3>6. EstimateMinutes(Coord[group[i - 1]], Coord[group[i]]) \in Nat
        <4>1. group[i - 1] \in Places /\ group[i] \in Places
          BY <1>2, <3>1
        <4> QED BY <4>1, FarIs
      <3> QED BY <2>1, <2>2, <2>3, <2>6, <3>1, <3>5, <3>6
    <2> QED BY <2>1, <2>2, <2>4, <2>5, <2>6
  <1>5. Total(n, takes) =< Total(n, Takes(group)) /\ Total(n, takes) \in Nat
        /\ Total(n, Takes(group)) \in Nat
    <2>1. IsMinutes(takes, n) /\ IsMinutes(Takes(group), n)
      BY <1>4 DEF IsMinutes
    <2> QED BY <1>2, <1>4, <2>1, TotalCompare, TotalNext
  <1>6. Duration(n, p, travel) = Total(n, takes)
    <2>1. n \in 0..Len(p)
      BY <1>2, <1>n
    <2> QED BY <1>1, <1>3, <1>4, <1>n, <2>1, TotalOfCourse
  <1>7. req.available = None \/ Duration(n, p, travel) =< req.available
    <2>1. req.available # None => req.available \in Nat /\ Total(n, Takes(group)) =< req.available
      BY <1>2, RequestIs DEF GroupFits, Limits
    <2> QED BY <1>5, <1>6, <2>1
  <1>f. PICK m : m = Fitting(p, travel, req.available)
    OBVIOUS
  <1>8. m = n
    <2>1. n \in 1..Len(p) /\ Len(p) = n
      BY <1>2, <1>n
    <2>2. m \in 0..Len(p) /\ n =< m
      BY <1>1, <1>3, <1>7, <1>f, <2>1, RequestIs, FittingIs
    <2> QED BY <1>2, <2>1, <2>2
  <1>9. m # 0
    BY <1>2, <1>8
  <1>10. /\ Built(c) # None /\ Len(Built(c).places) = m /\ DOMAIN Built(c).places = 1..m
    <2>1. Built(c) = BuildCourse(p, travel, req.visit, req.available)
      BY <1>p, <1>t DEF Built
    <2> QED BY <1>1, <1>3, <1>9, <1>f, <1>n, <2>1, RequestIs, BuiltIs
  <1>11. \A i \in 1..m : Built(c).places[i].place = p[i].place
    BY <1>1, <1>10, <1>p, BuiltFits
  <1> QED BY <1>2, <1>8, <1>10, <1>11, <1>n, <1>p

LEMMA RulesAreWhole ==
    ASSUME TypeInv, plans = FromRules,
           req.origin = None, req.available # None => DefaultStay =< req.available,
           \A l \in AllLegs : Minutes(l) =< EstimateMinutes(l[1], l[2])
    PROVE  /\ AllNew /\ Len(plans) =< MaxCourses
           /\ \A c \in 1..Len(plans) :
                 Built(c) # None /\ PlacesOf(Built(c).places) = PlacesOf(plans[c])
  <1>g. PICK groups : groups = RuleBasedGroups(req.ranked, req.available)
    OBVIOUS
  <1>n. PICK n : n = Len(groups)
    OBVIOUS
  <1>1. /\ groups \in Seq(Seq(Places)) /\ n =< MaxCourses
        /\ GoodGroups(groups, req.available) /\ Apart(groups)
    BY <1>g, <1>n, RequestIs, GroupsAre
  <1>2. Len(plans) = n /\ n \in Nat /\ \A c \in 1..n : DraftOf(plans[c], groups[c])
    BY <1>g, <1>n, FromRulesIs
  <1>3. ASSUME NEW c \in 1..n
        PROVE  /\ groups[c] \in Seq(Places) /\ Len(groups[c]) >= 1
               /\ Built(c) # None /\ Len(Built(c).places) = Len(plans[c])
               /\ DOMAIN Built(c).places = 1..Len(groups[c])
               /\ \A i \in 1..Len(groups[c]) : Built(c).places[i].place = groups[c][i]
    <2>1. groups[c] \in Seq(Places) /\ Len(groups[c]) >= 1 /\ GroupFits(groups[c], req.available)
      BY <1>1, <1>n DEF GoodGroups
    <2>2. c \in 1..Len(plans) /\ DraftOf(plans[c], groups[c])
      BY <1>2
    <2> QED BY <2>1, <2>2, WholeIs
  <1>4. ASSUME NEW c \in 1..n PROVE PlacesOf(Built(c).places) = PlacesOf(plans[c])
    <2>1. plans[c] \in PickSeqs
      BY <1>2 DEF TypeInv
    <2>2. /\ DOMAIN plans[c] = 1..Len(groups[c])
          /\ \A i \in 1..Len(groups[c]) : plans[c][i].place = groups[c][i]
      BY <1>2, <2>1, PickSeqIs DEF DraftOf
    <2>3. DOMAIN Built(c).places = 1..Len(groups[c])
          /\ \A i \in 1..Len(groups[c]) : Built(c).places[i].place = groups[c][i]
      BY <1>3
    <2> QED BY <2>2, <2>3 DEF PlacesOf
  <1>5. ASSUME NEW c \in 1..n PROVE PlaceSet(Built(c)) = ToSet(groups[c])
    <2>1. DOMAIN groups[c] = 1..Len(groups[c])
      BY <1>3
    <2>2. DOMAIN Built(c).places = 1..Len(groups[c])
          /\ \A i \in 1..Len(groups[c]) : Built(c).places[i].place = groups[c][i]
      BY <1>3
    <2> QED BY <2>1, <2>2 DEF PlaceSet, ToSet
  <1>6. ASSUME NEW j \in 1..n, NEW k \in 1..n, j < k PROVE ~Within1(k, j)
    <2>1. groups[k][1] \in ToSet(groups[k])
      <3>1. 1 \in DOMAIN groups[k]
        BY <1>3
      <3> QED BY <3>1 DEF ToSet
    <2>2. groups[k][1] \notin ToSet(groups[j])
      BY <1>1, <1>6, <1>n, <2>1 DEF Apart
    <2> QED BY <1>5, <2>1, <2>2 DEF Within1
  <1>7. AllNew
    BY <1>2, <1>3, <1>6 DEF AllNew
  <1> QED BY <1>1, <1>2, <1>3, <1>4, <1>7

-----------------------------------------------------------------------------
(* The invariant holds in every state.                                      *)
LEMMA Starts == AssemblyInit => CourseInv
  <1> SUFFICES ASSUME AssemblyInit PROVE CourseInv
    OBVIOUS
  <1>1. TypeInv
    BY DEF AssemblyInit, TypeInv, LegInv
  <1>2. PhaseInv /\ AnswerInv /\ RulesInv
    BY DEF AssemblyInit, PhaseInv, AnswerInv, RulesInv
  <1> QED BY <1>1, <1>2 DEF CourseInv

LEMMA Composes == CourseInv /\ Compose => CourseInv'
  <1> SUFFICES ASSUME CourseInv, Compose PROVE CourseInv'
    OBVIOUS
  <1>1. TypeInv /\ PhaseInv
    BY DEF CourseInv
  <1>2. PICK answer \in Answers :
          LET drafts  == IF FromModel(answer) # <<>> THEN FromModel(answer) ELSE FromRules
              ordered == [c \in DOMAIN drafts |-> OrderByDistance(drafts[c], req.origin)]
          IN  /\ drafted' = IF FromModel(answer) # <<>> THEN "model" ELSE "rules"
              /\ plans' = ordered
              /\ \/ leg' = [l \in FarLegs(ordered) |-> Ended("running")]
                 \/ leg' = <<>>
    BY DEF Compose
  <1>3. phase = "compose" /\ phase' = "travel" /\ UNCHANGED <<req, outcome, courses>>
    BY DEF Compose
  <1>d. PICK drafts : drafts = IF FromModel(answer) # <<>> THEN FromModel(answer) ELSE FromRules
    OBVIOUS
  <1>4. drafts \in Seq(PickSeqs)
    BY <1>1, <1>d, FromModelIs, FromRulesIs
  <1>5. plans' = [c \in DOMAIN drafts |-> OrderByDistance(drafts[c], req.origin)]
    BY <1>2, <1>d
  <1>6. plans' \in Seq(PickSeqs)
    <2>n. PICK n : n = Len(drafts)
      OBVIOUS
    <2>1. n \in Nat /\ DOMAIN drafts = 1..n /\ \A c \in 1..n : drafts[c] \in PickSeqs
      BY <1>4, <2>n
    <2>2. \A c \in 1..n : OrderByDistance(drafts[c], req.origin) \in PickSeqs
      <3>1. req.origin \in Int \cup {None}
        BY <1>1, RequestIs
      <3> QED BY <2>1, <3>1, OrderIs
    <2> QED BY <1>5, <2>1, <2>2
  <1>7. LegInv'
    <2>1. \E S : leg' = [l \in S |-> Ended("running")]
      <3>1. CASE leg' = <<>>
        <4>1. leg' = [l \in {} |-> Ended("running")]
          BY <3>1
        <4> QED BY <4>1
      <3>2. CASE leg' # <<>>
        <4>1. PICK ordered : leg' = [l \in FarLegs(ordered) |-> Ended("running")]
          BY <1>2, <3>2
        <4> QED BY <4>1
      <3> QED BY <3>1, <3>2
    <2> QED BY <2>1 DEF LegInv, Ended, Statuses
  <1>8. drafted' \in {"nobody", "model", "rules"} /\ (drafted' = "rules" => drafts = FromRules)
    BY <1>2, <1>d
  <1>9. TypeInv'
    BY <1>1, <1>3, <1>6, <1>7, <1>8 DEF TypeInv
  <1>10. PhaseInv' /\ AnswerInv'
    BY <1>1, <1>3 DEF PhaseInv, AnswerInv
  <1>11. RulesInv'
    <2>1. FromRules' = FromRules
      BY <1>3 DEF FromRules
    <2>2. drafted' = "rules" /\ req.origin = None => plans' = FromRules
      BY <1>1, <1>5, <1>8, FromRulesIs
    <2> QED BY <1>3, <2>1, <2>2 DEF RulesInv
  <1> QED BY <1>9, <1>10, <1>11 DEF CourseInv

LEMMA LegGoesOn == ASSUME CourseInv, NEW l \in DOMAIN leg, LegEnds(l) PROVE CourseInv'
  <1>1. TypeInv /\ PhaseInv /\ AnswerInv /\ RulesInv
    BY DEF CourseInv
  <1>2. leg[l].is = "running" /\ UNCHANGED <<req, drafted, plans, phase, outcome, courses>>
    BY DEF LegEnds
  <1>3. PICK answer \in {Route(m) : m \in DriveMinutes}
                          \cup {Ended(is) : is \in {"no_route"} \cup Failures} :
          leg' = [leg EXCEPT ![l] = answer]
    BY DEF LegEnds
  <1>4. answer.is \in Statuses \cup {"route"} /\ (answer.is = "route" => answer.minutes \in Nat)
    <2>1. CASE answer \in {Route(m) : m \in DriveMinutes}
      <3>1. PICK m \in DriveMinutes : answer = Route(m)
        BY <2>1
      <3>2. m \in Nat
        <4>1. DriveMinutes \subseteq Nat
          BY AssemblyAssumption
        <4> QED BY <4>1
      <3> QED BY <3>1, <3>2 DEF Route
    <2>2. CASE answer \in {Ended(is) : is \in {"no_route"} \cup Failures}
      <3>1. PICK is \in {"no_route"} \cup Failures : answer = Ended(is)
        BY <2>2
      <3>2. answer.is = is /\ is # "route" /\ is \in Statuses
        BY <3>1 DEF Ended, Statuses, Failures
      <3> QED BY <3>2
    <2> QED BY <2>1, <2>2
  <1>5. LegInv'
    <2>1. DOMAIN leg' = DOMAIN leg /\ leg'[l] = answer
          /\ \A k \in DOMAIN leg : k # l => leg'[k] = leg[k]
      BY <1>3
    <2>2. LegInv
      BY <1>1 DEF TypeInv
    <2> QED BY <1>4, <2>1, <2>2 DEF LegInv
  <1>6. phase \notin {"compose", "answered"}
    BY <1>1, <1>2 DEF PhaseInv, AnswerInv, Running
  <1>7. TypeInv'
    BY <1>1, <1>2, <1>5 DEF TypeInv
  <1>8. PhaseInv' /\ AnswerInv'
    BY <1>1, <1>2, <1>6 DEF PhaseInv, AnswerInv
  <1>9. RulesInv'
    BY <1>1, <1>2 DEF RulesInv, FromRules
  <1> QED BY <1>7, <1>8, <1>9 DEF CourseInv

LEMMA Assembles == CourseInv /\ Assemble => CourseInv'
  <1> SUFFICES ASSUME CourseInv, Assemble PROVE CourseInv'
    OBVIOUS
  <1>1. TypeInv /\ PhaseInv /\ AnswerInv /\ RulesInv
    BY DEF CourseInv
  <1>2. /\ phase = "travel" /\ phase' = "answered" /\ UNCHANGED <<req, drafted, plans>>
        /\ StopLegs
        /\ Failed = {} => outcome' = "courses" /\ courses' = Assembled
        /\ Failed # {} => outcome' \in {leg[l].is : l \in Failed} /\ courses' = <<>>
    BY DEF Assemble
  <1>3. /\ \A l : Minutes(l)' = Minutes(l)
        /\ Running' = {} /\ Failed' = Failed /\ \A l \in Failed : leg'[l] = leg[l]
        /\ LegInv => LegInv'
    BY <1>2, StopsLegs
  <1>4. TypeInv'
    BY <1>1, <1>2, <1>3 DEF TypeInv
  <1>5. PhaseInv' /\ RulesInv'
    BY <1>1, <1>2 DEF PhaseInv, RulesInv, FromRules
  <1>6. AnswerInv'
    <2>1. CASE Failed = {}
      <3>1. PICK cs : cs = Assembled
        OBVIOUS
      <3>2. Len(plans) \in Nat /\ DOMAIN plans = 1..Len(plans)
        BY <1>1 DEF TypeInv
      <3>3. IsChoice(cs)
        BY <3>1, <3>2, AssembledIs
      <3>4. IsChoice(cs)'
        BY <1>2, <1>3, <3>3, BuiltStays
      <3>5. courses' = cs
        BY <1>2, <2>1, <3>1
      <3>6. IsChoice(courses)'
        BY <3>4, <3>5 DEF IsChoice
      <3> QED BY <1>2, <1>3, <2>1, <3>6 DEF AnswerInv
    <2>2. CASE Failed # {}
      <3>1. PICK l \in Failed : outcome' = leg[l].is
        BY <1>2, <2>2
      <3>2. outcome' \in Failures /\ outcome' # "courses"
        BY <3>1 DEF Failed, Failures
      <3>3. l \in Failed' /\ leg'[l].is = outcome'
        BY <1>3, <3>1
      <3> QED BY <1>2, <1>3, <2>2, <3>2, <3>3 DEF AnswerInv
    <2> QED BY <2>1, <2>2
  <1> QED BY <1>4, <1>5, <1>6 DEF CourseInv

(* What was answered stays as it is while the tasks do, or only stop.       *)
LEMMA AnswerStays ==
    ASSUME CourseInv, UNCHANGED <<req, drafted, plans, outcome, courses>>,
           phase' = phase \/ (phase = "travel" /\ phase' = "interrupted"),
           \A l : Minutes(l)' = Minutes(l), Running' \subseteq Running,
           Failed' = Failed, \A l \in Failed : leg'[l] = leg[l], LegInv',
           DOMAIN leg' = DOMAIN leg
    PROVE  CourseInv'
  <1>1. TypeInv /\ PhaseInv /\ AnswerInv /\ RulesInv
    BY DEF CourseInv
  <1>2. TypeInv'
    BY <1>1 DEF TypeInv
  <1>3. PhaseInv'
    BY <1>1 DEF PhaseInv
  <1>4. RulesInv'
    BY <1>1 DEF RulesInv, FromRules
  <1>5. AnswerInv'
    <2>1. CASE phase' = "answered"
      <3>1. phase = "answered"
        BY <2>1
      <3>2. PICK cs : cs = courses
        OBVIOUS
      <3>3. IsChoice(cs) => IsChoice(cs)'
        BY BuiltStays
      <3>4. IsChoice(courses) => IsChoice(courses)'
        BY <3>2, <3>3 DEF IsChoice
      <3>5. outcome # "courses" => \E l \in Failed' : leg'[l].is = outcome
        BY <1>1, <3>1 DEF AnswerInv
      <3> QED BY <1>1, <3>1, <3>4, <3>5 DEF AnswerInv
    <2>2. CASE phase' # "answered"
      BY <2>2 DEF AnswerInv
    <2> QED BY <2>1, <2>2
  <1> QED BY <1>2, <1>3, <1>4, <1>5 DEF CourseInv

LEMMA LegStops == ASSUME CourseInv, NEW l \in DOMAIN leg, LegCancelled(l) PROVE CourseInv'
  <1>1. UNCHANGED <<req, drafted, plans, phase, outcome, courses>> /\ TypeInv
    BY DEF LegCancelled, CourseInv
  <1>2. DOMAIN leg' = DOMAIN leg /\ \A k \in DOMAIN leg : leg'[k] = leg[k] \/ Stopped(k)
    BY DEF LegCancelled, Stopped
  <1>3. /\ \A k : Minutes(k)' = Minutes(k)
        /\ Running' \subseteq Running /\ Failed' = Failed
        /\ \A k \in Failed : leg'[k] = leg[k]
        /\ LegInv'
    BY <1>1, <1>2, StopsTasks DEF TypeInv
  <1> QED BY <1>1, <1>2, <1>3, AnswerStays

LEMMA Stays == CourseInv /\ (Interrupt \/ UNCHANGED assemblyVars) => CourseInv'
  <1> SUFFICES ASSUME CourseInv, Interrupt \/ UNCHANGED assemblyVars PROVE CourseInv'
    OBVIOUS
  <1>1. UNCHANGED <<req, drafted, plans, leg, outcome, courses>> /\ LegInv
    BY DEF Interrupt, assemblyVars, CourseInv, TypeInv
  <1>2. phase' = phase \/ (phase = "travel" /\ phase' = "interrupted")
    BY DEF Interrupt, assemblyVars
  <1>3. /\ \A l : Minutes(l)' = Minutes(l)
        /\ Running' \subseteq Running /\ Failed' = Failed
        /\ \A l \in Failed : leg'[l] = leg[l]
        /\ LegInv'
    BY <1>1, StopsTasks
  <1> QED BY <1>1, <1>2, <1>3, AnswerStays

LEMMA CourseInvariance == AssemblySpec => []CourseInv
  <1>1. AssemblyInit => CourseInv
    BY Starts
  <1>2. CourseInv /\ [AssemblyNext]_assemblyVars => CourseInv'
    BY Composes, LegGoesOn, LegStops, Assembles, Stays DEF AssemblyNext
  <1> QED BY <1>1, <1>2, PTL DEF AssemblySpec

-----------------------------------------------------------------------------
(* What is answered, in the terms of the properties.                        *)
LEMMA AnswerIs ==
    ASSUME CourseInv
    PROVE  /\ TypeInv /\ (outcome = "courses" => phase = "answered")
           /\ \/ courses = <<>> /\ outcome # "courses"
              \/ outcome = "courses" /\ IsChoice(courses)
           /\ \A k \in DOMAIN courses :
                 /\ outcome = "courses" /\ IsChoice(courses) /\ k \in 1..Len(courses)
                 /\ courses[k].plan \in DOMAIN plans /\ Built(courses[k].plan) # None
                 /\ courses[k].course = Built(courses[k].plan)
  <1>1. TypeInv /\ PhaseInv /\ AnswerInv
    BY DEF CourseInv
  <1>2. phase # "answered" => courses = <<>> /\ outcome # "courses"
    BY <1>1 DEF PhaseInv
  <1>3. phase = "answered" => \/ courses = <<>> /\ outcome # "courses"
                              \/ outcome = "courses" /\ IsChoice(courses)
    BY <1>1 DEF AnswerInv
  <1>4. IsChoice(courses) =>
          /\ DOMAIN courses = 1..Len(courses)
          /\ \A k \in 1..Len(courses) :
                /\ courses[k].plan \in DOMAIN plans /\ Built(courses[k].plan) # None
                /\ courses[k].course = Built(courses[k].plan)
    BY DEF IsChoice
  <1> QED BY <1>1, <1>2, <1>3, <1>4

(* Only legs that are driven have a task, and it has ended in one of the    *)
(* ways of driving_minutes, is running, or was told to stop; what is        *)
(* answered is made of plans (_travel_times, _recommend).                   *)
TaskOutcomes ==
    {Route(m) : m \in DriveMinutes}
        \cup {Ended(is) : is \in Failures \cup {"running", "no_route", "stopping", "cancelled"}}

TasksInv ==
    /\ DOMAIN leg \subseteq {l \in AllLegs : NeedsMapApi(l[1], l[2])}
    /\ \A l \in DOMAIN leg : leg[l] \in TaskOutcomes

LEMMA TasksStart == TasksInv /\ Compose => TasksInv'
  <1> SUFFICES ASSUME TasksInv, Compose PROVE TasksInv'
    OBVIOUS
  <1>1. PICK ordered : /\ plans' = ordered
                       /\ \/ leg' = [l \in FarLegs(ordered) |-> Ended("running")]
                          \/ leg' = <<>>
    BY DEF Compose
  <1>2. req' = req
    BY DEF Compose
  <1>3. \A p : LegsOf(p)' = LegsOf(p)
    BY <1>2 DEF LegsOf
  <1>4. AllLegs' = UNION {LegsOf(ordered[c]) : c \in DOMAIN ordered}
    BY <1>1, <1>3 DEF AllLegs
  <1>5. FarLegs(ordered) = {l \in UNION {LegsOf(ordered[c]) : c \in DOMAIN ordered} :
                              NeedsMapApi(l[1], l[2])}
    BY DEF FarLegs
  <1>6. DOMAIN leg' \subseteq FarLegs(ordered) /\ \A l \in DOMAIN leg' : leg'[l] = Ended("running")
    <2>1. DOMAIN <<>> = {}
      OBVIOUS
    <2> QED BY <1>1, <2>1
  <1>7. Ended("running") \in TaskOutcomes
    BY DEF TaskOutcomes
  <1>8. {l \in AllLegs : NeedsMapApi(l[1], l[2])}' = {l \in AllLegs' : NeedsMapApi(l[1], l[2])}
    BY Zenon DEF NeedsMapApi, Distance
  <1> QED BY <1>4, <1>5, <1>6, <1>7, <1>8 DEF TasksInv, TaskOutcomes

LEMMA TasksGoOn ==
    ASSUME TasksInv, UNCHANGED <<req, plans>>, DOMAIN leg' = DOMAIN leg,
           \A l \in DOMAIN leg : leg'[l] \in TaskOutcomes
    PROVE  TasksInv'
  <1>1. AllLegs' = AllLegs
    BY DEF AllLegs, LegsOf
  <1>2. {l \in AllLegs : NeedsMapApi(l[1], l[2])}' = {l \in AllLegs : NeedsMapApi(l[1], l[2])}
    BY <1>1, Zenon DEF NeedsMapApi, Distance
  <1> QED BY <1>2 DEF TasksInv, TaskOutcomes

(* The variables keep their types: only far legs of the plans have a task,  *)
(* and every course of the answer is one of the plans.                      *)
THEOREM CoursesTyped == AssemblySpec => []AssemblyTypeOK
  <1>1. AssemblyInit => TasksInv
    BY DEF AssemblyInit, TasksInv
  <1>2. ASSUME TasksInv, [AssemblyNext]_assemblyVars PROVE TasksInv'
    <2>1. ASSUME NEW l \in DOMAIN leg, LegEnds(l) PROVE TasksInv'
      <3>1. PICK answer \in {Route(m) : m \in DriveMinutes}
                              \cup {Ended(is) : is \in {"no_route"} \cup Failures} :
              leg' = [leg EXCEPT ![l] = answer]
        BY <2>1 DEF LegEnds
      <3>2. answer \in TaskOutcomes
        BY DEF TaskOutcomes
      <3>3. DOMAIN leg' = DOMAIN leg /\ \A k \in DOMAIN leg : leg'[k] \in TaskOutcomes
        BY <1>2, <3>1, <3>2 DEF TasksInv
      <3> QED BY <1>2, <2>1, <3>3, TasksGoOn DEF LegEnds
    <2>2. CASE Assemble
      <3>1. Ended("stopping") \in TaskOutcomes
        BY DEF TaskOutcomes
      <3>2. DOMAIN leg' = DOMAIN leg /\ \A k \in DOMAIN leg : leg'[k] \in TaskOutcomes
        BY <1>2, <2>2, <3>1 DEF TasksInv, Assemble, StopLegs
      <3> QED BY <1>2, <2>2, <3>2, TasksGoOn DEF Assemble
    <2>3. CASE Interrupt \/ UNCHANGED assemblyVars
      <3>1. UNCHANGED <<req, plans, leg>>
        BY <2>3 DEF Interrupt, assemblyVars
      <3>2. \A k \in DOMAIN leg : leg'[k] \in TaskOutcomes
        BY <1>2, <3>1 DEF TasksInv
      <3> QED BY <1>2, <3>1, <3>2, TasksGoOn
    <2>4. CASE Compose
      BY <1>2, <2>4, TasksStart
    <2>5. ASSUME NEW l \in DOMAIN leg, LegCancelled(l) PROVE TasksInv'
      <3>1. Ended("cancelled") \in TaskOutcomes
        BY DEF TaskOutcomes
      <3>2. DOMAIN leg' = DOMAIN leg /\ \A k \in DOMAIN leg : leg'[k] \in TaskOutcomes
        BY <1>2, <2>5, <3>1 DEF TasksInv, LegCancelled
      <3> QED BY <1>2, <2>5, <3>2, TasksGoOn DEF LegCancelled
    <2> QED BY <1>2, <2>1, <2>2, <2>3, <2>4, <2>5 DEF AssemblyNext
  <1>3. ASSUME CourseInv, TasksInv PROVE AssemblyTypeOK
    <2>1. /\ req \in Requests /\ drafted \in {"nobody", "model", "rules"}
          /\ phase \in {"compose", "travel", "answered", "interrupted"}
      BY <1>3 DEF CourseInv, TypeInv
    <2>2. outcome \in {"none", "courses"} \cup Failures
      BY <1>3 DEF CourseInv, PhaseInv, AnswerInv
    <2>3. \A k \in DOMAIN courses : courses[k].plan \in DOMAIN plans
      BY <1>3, AnswerIs
    <2> QED BY <1>3, <2>1, <2>2, <2>3 DEF AssemblyTypeOK, TasksInv, TaskOutcomes
  <1> QED BY <1>1, <1>2, <1>3, CourseInvariance, PTL DEF AssemblySpec

(* Whatever the model writes and the map API answers, in any order: what a  *)
(* reader of a course adds up is right, it is within the time that the user *)
(* has, and no place was cut that would have fit (build_course).            *)
THEOREM CoursesAddUp == AssemblySpec => []CoursesFit
  <1>1. ASSUME CourseInv PROVE CoursesFit
    <2> SUFFICES ASSUME NEW k \in DOMAIN courses
                 PROVE  LET c     == courses[k].course
                            p     == plans[courses[k].plan]
                            n     == Len(c.places)
                            takes == [i \in 1..n |-> c.places[i].travel + c.places[i].stay]
                        IN  /\ n \in 1..Len(p)
                            /\ \A i \in 1..n : /\ c.places[i].place = p[i].place
                                               /\ c.places[i].stay = p[i].stay
                            /\ c.total = Total(n, takes)
                            /\ c.places[1].arrival =
                                 (StartMinutes(req.visit) + c.places[1].travel) % Day
                            /\ \A i \in 2..n :
                                  c.places[i].arrival =
                                    (c.places[i - 1].arrival + c.places[i - 1].stay
                                       + c.places[i].travel) % Day
                            /\ req.available # None => c.total =< req.available
                            /\ n < Len(p) => /\ req.available # None
                                             /\ c.total + Minutes(Legs(p, req.origin)[n + 1])
                                                  + p[n + 1].stay > req.available
      BY DEF CoursesFit
    <2>1. PICK plan : plan = courses[k].plan
      OBVIOUS
    <2>2. PICK c : c = courses[k].course
      OBVIOUS
    <2>3. TypeInv /\ plan \in DOMAIN plans /\ Built(plan) # None /\ c = Built(plan)
      BY <1>1, <2>1, <2>2, AnswerIs
    <2>4. LET p     == plans[plan]
              n     == Len(c.places)
              takes == [i \in 1..n |-> c.places[i].travel + c.places[i].stay]
          IN  /\ n \in 1..Len(p)
              /\ \A i \in 1..n : c.places[i].place = p[i].place /\ c.places[i].stay = p[i].stay
              /\ c.total = Total(n, takes)
              /\ c.places[1].arrival = (StartMinutes(req.visit) + c.places[1].travel) % Day
              /\ \A i \in 2..n :
                    c.places[i].arrival =
                      (c.places[i - 1].arrival + c.places[i - 1].stay + c.places[i].travel) % Day
              /\ req.available # None => c.total =< req.available
              /\ n < Len(p) => /\ req.available # None
                               /\ c.total + Minutes(Legs(p, req.origin)[n + 1]) + p[n + 1].stay
                                     > req.available
      BY <2>3, BuiltFits, Zenon
    <2> QED BY <2>1, <2>2, <2>4, Zenon
  <1> QED BY <1>1, CourseInvariance, PTL

(* No course of an answer is within one before it, and no plan is left out  *)
(* that fits and would add a place, while there is room for a course.       *)
THEOREM ChoicesAreDifferent == AssemblySpec => []ChoicesDiffer
  <1>1. ASSUME CourseInv PROVE ChoicesDiffer
    <2>1. CASE courses = <<>> /\ outcome # "courses"
      <3>1. DOMAIN courses = {} /\ Len(courses) = 0 /\ 0 =< MaxCourses
        BY <2>1, BuilderAssumption
      <3> QED BY <2>1, <3>1 DEF ChoicesDiffer
    <2>2. CASE IsChoice(courses)
      <3>1. /\ DOMAIN courses = 1..Len(courses) /\ Len(courses) =< MaxCourses
            /\ \A k \in 1..Len(courses) : courses[k].course = Built(courses[k].plan)
        BY <2>2, BuilderAssumption DEF IsChoice
      <3>2. ASSUME NEW j \in DOMAIN courses, NEW k \in DOMAIN courses, j < k
            PROVE  ~(PlaceSet(courses[k].course) \subseteq PlaceSet(courses[j].course))
        <4>1. ~Within1(courses[k].plan, courses[j].plan)
          BY <2>2, <3>1, <3>2 DEF IsChoice
        <4> QED BY <3>1, <4>1 DEF Within1
      <3>3. ASSUME Len(courses) < MaxCourses, NEW c \in DOMAIN plans
            PROVE  \/ Built(c) = None
                   \/ \E k \in DOMAIN courses : PlaceSet(Built(c)) \subseteq PlaceSet(courses[k].course)
        <4>1. Built(c) = None \/ \E k \in 1..Len(courses) : Within1(c, courses[k].plan)
          BY <2>2, <3>3 DEF IsChoice
        <4> QED BY <3>1, <4>1 DEF Within1
      <3> QED BY <3>1, <3>2, <3>3 DEF ChoicesDiffer
    <2> QED BY <1>1, <2>1, <2>2, AnswerIs
  <1> QED BY <1>1, CourseInvariance, PTL

(* An answer of the map API is in the course on the leg that it was asked   *)
(* for, other legs are estimated, and a failed leg fails the request.       *)
THEOREM AnswersAreUsed == AssemblySpec => []MapAnswersCount
  <1>1. ASSUME CourseInv PROVE MapAnswersCount
    <2>1. phase = "answered" => (outcome = "courses" <=> Failed = {})
      BY <1>1 DEF CourseInv, AnswerInv
    <2>2. outcome \in Failures => \E l \in Failed : leg[l].is = outcome
      BY <1>1 DEF CourseInv, AnswerInv, PhaseInv, Failures
    <2>3. ASSUME NEW k \in DOMAIN courses, NEW i \in DOMAIN courses[k].course.places
          PROVE  LET c    == courses[k].course
                     here == IF i = 1 THEN req.origin ELSE Coord[c.places[i - 1].place]
                     l    == <<here, Coord[c.places[i].place]>>
                 IN  c.places[i].travel = IF here = None THEN 0
                                          ELSE IF Routed(l) THEN leg[l].minutes
                                          ELSE EstimateMinutes(l[1], l[2])
      <3>1. PICK plan : plan = courses[k].plan
        OBVIOUS
      <3>2. TypeInv /\ plan \in DOMAIN plans /\ Built(plan) # None /\ courses[k].course = Built(plan)
        BY <1>1, <3>1, AnswerIs
      <3>p. PICK p : p = plans[plan]
        OBVIOUS
      <3>c. PICK c : c = courses[k].course
        OBVIOUS
      <3>n. PICK n : n = Len(c.places)
        OBVIOUS
      <3>b. PICK b : b = Built(plan)
        OBVIOUS
      <3>s. /\ Len(b.places) \in 1..Len(plans[plan]) /\ DOMAIN b.places = 1..Len(b.places)
            /\ \A j \in 1..Len(b.places) :
                  /\ b.places[j].place = plans[plan][j].place
                  /\ b.places[j].travel = TravelTimes(plans[plan])[j]
        BY <3>2, <3>b, BuiltFits
      <3>3. /\ n \in 1..Len(p) /\ DOMAIN c.places = 1..n
            /\ \A j \in 1..n : c.places[j].place = p[j].place /\ c.places[j].travel = TravelTimes(p)[j]
        BY <3>2, <3>b, <3>c, <3>s, <3>n, <3>p
      <3>4. p \in PickSeqs /\ Len(p) \in Nat
        BY <3>2, <3>p DEF TypeInv, PickSeqs
      <3>5. i \in 1..n /\ i \in 1..Len(p) /\ (i # 1 => i - 1 \in 1..n /\ i - 1 \in 1..Len(p))
        BY <3>3, <3>4, <3>c
      <3>h. PICK here : here = IF i = 1 THEN req.origin ELSE Coord[c.places[i - 1].place]
        OBVIOUS
      <3>l. PICK l : l = <<here, Coord[c.places[i].place]>>
        OBVIOUS
      <3>m. PICK m : m = Legs(p, req.origin)[i]
        OBVIOUS
      <3>6. /\ here = (IF i = 1 THEN req.origin ELSE Coord[p[i - 1].place])
            /\ l = <<here, Coord[p[i].place]>>
        BY <3>3, <3>5, <3>h, <3>l
      <3>7. \/ i = 1 /\ req.origin = None /\ m = None
            \/ /\ i > 1 \/ req.origin # None
               /\ m = <<IF i = 1 THEN req.origin ELSE Coord[p[i - 1].place], Coord[p[i].place]>>
               /\ m # None
        BY <3>2, <3>4, <3>5, <3>m, LegIs
      <3>8. c.places[i].travel = IF m = None THEN 0 ELSE Minutes(m)
        BY <3>2, <3>3, <3>4, <3>5, <3>m, TravelIs
      <3>9. CASE i = 1 /\ req.origin = None /\ m = None
        BY <3>6, <3>8, <3>9, <3>c, <3>h, <3>l
      <3>10. CASE (i > 1 \/ req.origin # None) /\ m = l /\ m # None
        <4>1. here # None
          <5>1. CASE i = 1
            BY <3>6, <3>10, <5>1
          <5>2. CASE i # 1
            <6>1. p[i - 1].place \in Places
              BY <3>4, <3>5, <5>2, PickSeqIs
            <6>2. Coord[p[i - 1].place] \in Int
              BY <6>1, BuilderAssumption
            <6> QED BY <3>6, <5>2, <6>2, BuilderAssumption
          <5> QED BY <5>1, <5>2
        <4>2. c.places[i].travel = IF Routed(l) THEN leg[l].minutes ELSE EstimateMinutes(l[1], l[2])
          BY <3>8, <3>10 DEF Minutes
        <4> QED BY <4>1, <4>2, <3>c, <3>h, <3>l
      <3> QED BY <3>6, <3>7, <3>9, <3>10
    <2> QED BY <2>1, <2>2, <2>3 DEF MapAnswersCount
  <1> QED BY <1>1, CourseInvariance, PTL

(* Without an origin and with no leg longer than its estimate, the courses  *)
(* of the rules come out whole, though three operators count their time:    *)
(* what rule_based_groups admits by the estimate is not cut by              *)
(* build_course, and the order of visits leaves a grown group in the order  *)
(* in which it was grown.                                                   *)
THEOREM FallbackIsWhole == AssemblySpec => []FallbackWhole
  <1>1. ASSUME CourseInv PROVE FallbackWhole
    <2> SUFFICES ASSUME outcome = "courses", drafted = "rules", req.origin = None,
                        req.available # None => DefaultStay =< req.available,
                        \A l \in AllLegs : Minutes(l) =< EstimateMinutes(l[1], l[2])
                 PROVE  /\ plans = FromRules
                        /\ Len(courses) = Len(plans)
                        /\ \A k \in DOMAIN courses :
                              PlacesOf(courses[k].course.places) = PlacesOf(plans[k])
      BY DEF FallbackWhole
    <2>1. TypeInv /\ plans = FromRules /\ IsChoice(courses)
      BY <1>1, AnswerIs DEF CourseInv, RulesInv
    <2>2. /\ AllNew /\ Len(plans) =< MaxCourses
          /\ \A c \in 1..Len(plans) : PlacesOf(Built(c).places) = PlacesOf(plans[c])
      BY <2>1, RulesAreWhole
    <2>3. /\ Len(courses) = Len(plans) /\ DOMAIN courses = 1..Len(courses)
          /\ \A k \in 1..Len(courses) : courses[k].plan = k /\ courses[k].course = Built(courses[k].plan)
      BY <2>1, <2>2 DEF IsChoice
    <2> QED BY <2>1, <2>2, <2>3
  <1> QED BY <1>1, CourseInvariance, PTL
=============================================================================
