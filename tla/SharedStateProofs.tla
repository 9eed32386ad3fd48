------------------------- MODULE SharedStateProofs -------------------------
(***************************************************************************)
(* Proofs about the two components that keep their counters in the shared  *)
(* state of the worker processes: the circuit breaker, for every set of    *)
(* threads and every threshold, and the limits on requests, for any        *)
(* processes, addresses, limits and length of the window.                  *)
(***************************************************************************)
EXTENDS CircuitBreaker, RateLimiter, NaturalsInduction, WellFoundedInduction, TLAPS

-----------------------------------------------------------------------------
(* The circuit breaker. *)

(* Every reachable state is well typed, and a pending bump is below        *)
(* half_open_max_calls: record_success never counts past it.               *)
THEOREM TypeCorrect == Spec => []TypeOK
<1> USE ThresholdAssumption, MaxCallsAssumption DEF ThresholdAssumption, MaxCallsAssumption
<1>1. Init => TypeOK
  <2> SUFFICES ASSUME Init PROVE TypeOK
    OBVIOUS
  <2>1. /\ seen \in BOOLEAN
        /\ reachable \in BOOLEAN
        /\ unsure \in BOOLEAN
    BY DEF Init
  <2> QED
    BY <2>1, SMT DEF Init, TypeOK, Missing, StoreValues, Locations
<1>2. TypeOK /\ [Next]_vars => TypeOK'
  <2> SUFFICES ASSUME TypeOK, [Next]_vars PROVE TypeOK'
    OBVIOUS
  <2> USE DEF TypeOK, Goto, Locations
  (* Whether the store answers or not, what is read or left is a state. *)
  <2>1. Read \in StoreValues
    BY DEF Read, Missing, StoreValues
  <2>2. ASSUME NEW value \in StoreValues, Write(value) PROVE store' \in StoreValues
    BY <2>2 DEF Write
  <2>3. ASSUME WriteNoFailures PROVE fails' \in 0..Threshold /\ unsure' \in BOOLEAN
    <3>1. unsure' \in BOOLEAN
      BY <2>3 DEF WriteNoFailures
    <3> QED
      BY <2>3, <3>1 DEF WriteNoFailures
  <2>4. ASSUME NEW p \in Threads, Get(p) PROVE TypeOK'
    BY <2>4 DEF Get
  <2>5. ASSUME NEW p \in Threads, AllowRead(p) PROVE TypeOK'
    BY <2>1, <2>5 DEF AllowRead
  <2>6. ASSUME NEW p \in Threads, WriteHalfOpen(p) PROVE TypeOK'
    <3>1. Dict("half_open", 0, snap[p].cooled) \in StoreValues
      BY DEF Dict, StoreValues
    <3> QED
      BY <2>2, <2>6, <3>1 DEF WriteHalfOpen
  <2>7. ASSUME NEW p \in Threads, Finish(p) PROVE TypeOK'
    BY <2>7 DEF Finish
  <2>8. ASSUME NEW p \in Threads, SuccessRead(p) PROVE TypeOK'
    BY <2>1, <2>8 DEF SuccessRead
  <2>9. ASSUME NEW p \in Threads, WriteBump(p) PROVE TypeOK'
    <3>1. pc[p] = "bump"
      BY <2>9 DEF WriteBump
    <3>2. Dict("half_open", snap[p].succ + 1, snap[p].cooled) \in StoreValues
      BY <3>1 DEF Dict, StoreValues
    <3> QED
      BY <2>2, <2>9, <3>2 DEF WriteBump
  <2>10. ASSUME NEW p \in Threads, WriteClosed(p) PROVE TypeOK'
    <3>1. Dict("closed", 0, FALSE) \in StoreValues
      BY DEF Dict, StoreValues
    <3> QED
      BY <2>2, <2>10, <3>1 DEF WriteClosed
  <2>11. ASSUME NEW p \in Threads, ResetFailures(p) PROVE TypeOK'
    BY <2>3, <2>11 DEF ResetFailures
  <2>12. ASSUME NEW p \in Threads, FailureRead(p) PROVE TypeOK'
    BY <2>1, <2>12 DEF FailureRead
  <2>13. ASSUME NEW p \in Threads, IncrFailures(p) PROVE TypeOK'
    <3>1. unsure' \in BOOLEAN
      BY <2>13 DEF IncrFailures
    <3>2. fails' \in 0..Threshold
      BY <2>13 DEF IncrFailures, OneFailureMore
    <3> QED
      BY <2>13, <3>1, <3>2 DEF IncrFailures
  <2>14. ASSUME NEW p \in Threads, Trip(p) PROVE TypeOK'
    <3>1. Dict("open", 0, FALSE) \in StoreValues
      BY DEF Dict, StoreValues
    <3>2. unsure' \in BOOLEAN
      BY <2>14 DEF Trip
    <3> QED
      BY <2>2, <2>14, <3>1, <3>2 DEF Trip
  <2>15. CASE Cool
    BY <2>15 DEF Cool, StoreValues
  <2>16. CASE RemoveState
    <3>1. Missing \in StoreValues
      BY DEF Missing, StoreValues
    <3> QED
      BY <2>2, <2>16, <3>1 DEF RemoveState
  <2>17. CASE RemoveFailures
    <3>1. seen' \in BOOLEAN
      BY <2>17 DEF RemoveFailures
    <3> QED
      BY <2>3, <2>17, <3>1 DEF RemoveFailures
  <2>18. CASE Outage \/ Recovery
    <3>1. reachable' \in BOOLEAN
      BY <2>18, ZenonT(60) DEF Outage, Recovery
    <3> QED
      BY <2>18, <3>1 DEF Outage, Recovery
  <2>19. CASE UNCHANGED vars
    BY <2>19 DEF vars
  <2> QED
    BY <2>4, <2>5, <2>6, <2>7, <2>8, <2>9, <2>10, <2>11, <2>12, <2>13, <2>14,
       <2>15, <2>16, <2>17, <2>18, <2>19 DEF Next, Step
<1> QED
  BY <1>1, <1>2, PTL DEF Spec

(* The breaker rests CLOSED with its failure counter at the threshold only *)
(* after the store failed to answer: the order of the operations of        *)
(* record_failure, record_success and remove loses no trip, whatever       *)
(* threads interleave and whenever the store goes and comes back.          *)
THEOREM TripNotLost == Spec => []NoLostTrip
<1> USE ThresholdAssumption DEF ThresholdAssumption
<1>1. Init => NoLostTrip
  BY DEF Init, NoLostTrip, Missing
<1>2. TypeOK /\ NoLostTrip /\ [Next]_vars => NoLostTrip'
  <2> SUFFICES ASSUME TypeOK, NoLostTrip, [Next]_vars PROVE NoLostTrip'
    OBVIOUS
  <2> USE DEF TypeOK, NoLostTrip, Goto
  (* A thread that moves between other points takes no witness away. *)
  <2>1. ASSUME NEW p \in Threads, pc[p] \notin {"trip", "reset"},
               UNCHANGED <<store, fails, reg, unsure>>,
               NEW l, pc' = [pc EXCEPT ![p] = l]
        PROVE  NoLostTrip'
    BY <2>1
  (* A write of HALF_OPEN leaves the state CLOSED only without effect. *)
  <2>2. ASSUME NEW p \in Threads, pc[p] \notin {"trip", "reset"},
               UNCHANGED <<fails, reg, unsure>>,
               NEW l, pc' = [pc EXCEPT ![p] = l],
               NEW succ, NEW cooled, Write(Dict("half_open", succ, cooled))
        PROVE  NoLostTrip'
    <3>1. CASE store' = store
      BY <2>1, <2>2, <3>1
    <3>2. CASE store' = Dict("half_open", succ, cooled)
      BY <3>2 DEF Dict
    <3> QED
      BY <2>2, <3>1, <3>2 DEF Write
  <2>3. ASSUME NEW p \in Threads, Get(p) PROVE NoLostTrip'
    BY <2>1, <2>3 DEF Get
  <2>4. ASSUME NEW p \in Threads, AllowRead(p) PROVE NoLostTrip'
    BY <2>1, <2>4 DEF AllowRead
  <2>5. ASSUME NEW p \in Threads, WriteHalfOpen(p) PROVE NoLostTrip'
    BY <2>2, <2>5 DEF WriteHalfOpen
  <2>6. ASSUME NEW p \in Threads, Finish(p) PROVE NoLostTrip'
    BY <2>1, <2>6 DEF Finish
  <2>7. ASSUME NEW p \in Threads, SuccessRead(p) PROVE NoLostTrip'
    BY <2>1, <2>7 DEF SuccessRead
  <2>8. ASSUME NEW p \in Threads, WriteBump(p) PROVE NoLostTrip'
    BY <2>2, <2>8 DEF WriteBump
  (* Closing, done or not, is followed by the reset of the same thread. *)
  <2>9. ASSUME NEW p \in Threads, WriteClosed(p) PROVE NoLostTrip'
    BY <2>9 DEF WriteClosed
  (* A reset that was answered left no count. *)
  <2>10. ASSUME NEW p \in Threads, ResetFailures(p) PROVE NoLostTrip'
    <3>1. CASE reachable
      BY <2>10, <3>1 DEF ResetFailures, WriteNoFailures
    <3>2. CASE ~reachable
      BY <2>10, <3>2 DEF ResetFailures, WriteNoFailures
    <3> QED
      BY <3>1, <3>2
  <2>11. ASSUME NEW p \in Threads, FailureRead(p) PROVE NoLostTrip'
    BY <2>1, <2>11 DEF FailureRead
  (* The thread that counts to the threshold is the one that trips. *)
  <2>12. ASSUME NEW p \in Threads, IncrFailures(p) PROVE NoLostTrip'
    BY <2>12 DEF IncrFailures, OneFailureMore
  <2>13. ASSUME NEW p \in Threads, Trip(p) PROVE NoLostTrip'
    <3>1. CASE reachable
      BY <2>13, <3>1 DEF Trip, Dict, Write
    <3>2. CASE ~reachable
      BY <2>13, <3>2 DEF Trip
    <3> QED
      BY <3>1, <3>2
  <2>14. CASE Cool
    BY <2>14 DEF Cool, StoreValues
  <2>15. CASE RemoveState
    BY <2>15 DEF RemoveState
  <2>16. CASE RemoveFailures
    <3>1. CASE reachable
      BY <2>16, <3>1 DEF RemoveFailures, WriteNoFailures
    <3>2. CASE ~reachable
      BY <2>16, <3>2 DEF RemoveFailures, WriteNoFailures
    <3> QED
      BY <3>1, <3>2
  <2>17. CASE Outage \/ Recovery
    BY <2>17 DEF Outage, Recovery
  <2>18. CASE UNCHANGED vars
    BY <2>18 DEF vars
  <2> QED
    BY <2>3, <2>4, <2>5, <2>6, <2>7, <2>8, <2>9, <2>10, <2>11, <2>12, <2>13,
       <2>14, <2>15, <2>16, <2>17, <2>18 DEF Next, Step
<1> QED
  BY <1>1, <1>2, TypeCorrect, PTL DEF Spec

-----------------------------------------------------------------------------
(* The limits on requests.                                                 *)
(*                                                                         *)
(* How many passed in a window is a sum over ages, which the model defines *)
(* by recursion.  What is needed of sums follows from the recursion, as    *)
(* among the ages at which it would fail there is none that comes first.   *)
(*                                                                         *)
(* The inductive invariant relates what has passed to what is counted: a   *)
(* process that counts by records has one for each that passed, unless     *)
(* they were dropped; where slots of the clock count, as many as have      *)
(* passed in this slot were counted, and at most the limit in the one      *)
(* before it.                                                              *)

LEMMA Least ==
  ASSUME NEW B \in SUBSET Nat, B # {}
  PROVE  \E n \in B : \A m \in B : n <= m
<1> DEFINE R == {ss \in Nat \X Nat : ss[1] < ss[2]}
<1>1. IsWellFoundedOn(R, Nat)
  BY NatLessThanWellFounded DEF OpToRel
<1>2. PICK y \in B : \A z \in B : ~ (<<z, y>> \in R)
  <2> HIDE DEF R
  <2> QED
    BY <1>1, WFMin
<1>3. ASSUME NEW z \in B PROVE y <= z
  <2>1. <<z, y>> \in Nat \X Nat /\ ~ (z < y)
    BY <1>2
  <2> QED
    BY <2>1
<1> QED
  BY <1>3

PartialSums(f, g) == /\ g[0] = f[0]
                     /\ \A a \in Age : a > 0 => g[a] = g[a - 1] + f[a]

LEMMA SumsExist ==
  ASSUME NEW f \in [Age -> Nat]
  PROVE  \E g \in [Age -> Nat] : PartialSums(f, g)
<1> USE LimitAssumption DEF LimitAssumption, Age
<1> DEFINE Sums(g, n) == g[0] = f[0] /\ \A a \in 1 .. n : g[a] = g[a - 1] + f[a]
           B == {n \in Age : ~ \E g \in [0 .. n -> Nat] : Sums(g, n)}
<1>1. B = {}
  <2> SUFFICES ASSUME B # {} PROVE FALSE
    OBVIOUS
  <2>1. PICK n \in B : \A m \in B : n <= m
    <3>1. B \in SUBSET Nat
      OBVIOUS
    <3> HIDE DEF B
    <3> QED
      BY <3>1, Least
  <2>2. n # 0
    <3> DEFINE g == [a \in 0 .. 0 |-> f[0]]
    <3>1. g \in [0 .. 0 -> Nat] /\ g[0] = f[0] /\ 1 .. 0 = {}
      OBVIOUS
    <3>2. 0 \notin B
      <4> HIDE DEF g
      <4> QED
        BY <3>1
    <3> QED
      BY <3>2
  <2>3. n \in Age /\ n - 1 \in Age /\ n - 1 \notin B
    <3>1. n \in Age
      BY <2>1
    <3> HIDE DEF B
    <3> QED
      BY <3>1, <2>1, <2>2
  <2>4. PICK g \in [0 .. n - 1 -> Nat] : Sums(g, n - 1)
    BY <2>3
  <2> DEFINE h == [a \in 0 .. n |-> IF a = n THEN g[n - 1] + f[n] ELSE g[a]]
  <2>5. h \in [0 .. n -> Nat]
    BY <2>2, <2>3, <2>4
  <2>6. h[0] = f[0]
    BY <2>2, <2>3, <2>4
  <2>7. ASSUME NEW a \in 1 .. n PROVE h[a] = h[a - 1] + f[a]
    <3>1. a \in 0 .. n /\ a - 1 \in 0 .. n /\ a - 1 # n
      BY <2>3
    <3>2. h[a - 1] = g[a - 1]
      BY <3>1
    <3>3. CASE a = n
      BY <3>1, <3>2, <3>3
    <3>4. CASE a # n
      <4>1. a \in 1 .. n - 1
        BY <3>4, <2>3
      <4>2. g[a] = g[a - 1] + f[a]
        BY <4>1, <2>4
      <4> QED
        BY <3>1, <3>2, <3>4, <4>2
    <3> QED
      BY <3>3, <3>4
  <2>8. Sums(h, n)
    <3> HIDE DEF h
    <3> QED
      BY <2>6, <2>7
  <2> QED
    BY <2>5, <2>8
<1>2. Window \in Age
  OBVIOUS
<1>3. PICK g \in [0 .. Window -> Nat] : Sums(g, Window)
  BY <1>1, <1>2
<1>4. \A a \in Age : a > 0 => a \in 1 .. Window
  OBVIOUS
<1>5. PartialSums(f, g)
  BY <1>3, <1>4 DEF PartialSums
<1> QED
  BY <1>3, <1>5

LEMMA SumToIs ==
  ASSUME NEW f \in [Age -> Nat]
  PROVE  SumTo(f) \in [Age -> Nat] /\ PartialSums(f, SumTo(f))
<1> USE LimitAssumption DEF LimitAssumption, Age
<1>1. PICK g \in [Age -> Nat] : PartialSums(f, g)
  BY SumsExist
<1>2. g = [a \in Age |-> IF a = 0 THEN f[0] ELSE g[a - 1] + f[a]]
  BY <1>1 DEF PartialSums
<1> DEFINE h == SumTo(f)
<1>3. h = [a \in Age |-> IF a = 0 THEN f[0] ELSE h[a - 1] + f[a]]
  BY <1>2 DEF SumTo
<1> HIDE DEF h
<1>4. PartialSums(f, h)
  BY <1>3 DEF PartialSums
<1> DEFINE B == {a \in Age : h[a] \notin Nat}
<1>5. B = {}
  <2> SUFFICES ASSUME B # {} PROVE FALSE
    OBVIOUS
  <2>1. PICK n \in B : \A m \in B : n <= m
    <3>1. B \in SUBSET Nat
      OBVIOUS
    <3> HIDE DEF B
    <3> QED
      BY <3>1, Least
  <2>2. n # 0
    BY <1>4 DEF PartialSums
  <2>3. h[n - 1] \in Nat
    BY <2>1, <2>2
  <2>4. n \in Age /\ n > 0 /\ f[n] \in Nat
    BY <2>1, <2>2
  <2>5. h[n] = h[n - 1] + f[n]
    BY <2>4, <1>4 DEF PartialSums
  <2> QED
    BY <2>1, <2>3, <2>4, <2>5, SMTT(30)
<1>6. h \in [Age -> Nat]
  BY <1>3, <1>5
<1> QED
  BY <1>4, <1>6 DEF h

(* What holds of age 0, and of an age if of the one before, holds of all.  *)
LEMMA AllAges ==
  ASSUME NEW S, 0 \in S, \A a \in Age : a > 0 /\ a - 1 \in S => a \in S
  PROVE  Age \subseteq S
<1> USE LimitAssumption DEF LimitAssumption, Age
<1> DEFINE B == Age \ S
<1> SUFFICES ASSUME B # {} PROVE FALSE
  OBVIOUS
<1>1. PICK n \in B : \A m \in B : n <= m
  <2>1. B \in SUBSET Nat
    OBVIOUS
  <2> HIDE DEF B
  <2> QED
    BY <2>1, Least
<1>2. n \in Age /\ n # 0 /\ n \notin S
  BY <1>1
<1>3. n - 1 \in Age /\ n - 1 \notin B
  <2> HIDE DEF B
  <2> QED
    BY <1>1, <1>2
<1> QED
  BY <1>2, <1>3

LEMMA SumOfNone ==
  \A a \in Age : SumTo(NoRequests)[a] = 0
<1> DEFINE S == {a \in Age : SumTo(NoRequests)[a] = 0}
<1>1. NoRequests \in [Age -> Nat]
  BY DEF NoRequests
<1>2. 0 \in Age
  BY LimitAssumption DEF LimitAssumption, Age
<1>3. 0 \in S
  BY <1>1, <1>2, SumToIs DEF PartialSums, NoRequests
<1>4. \A a \in Age : a > 0 /\ a - 1 \in S => a \in S
  BY <1>1, SumToIs DEF PartialSums, NoRequests
<1>5. Age \subseteq S
  <2> HIDE DEF S
  <2> QED
    BY <1>3, <1>4, AllAges
<1> QED
  BY <1>5

(* One more at age 0. *)
OneMore(f) == [f EXCEPT ![0] = @ + 1]

LEMMA SumOfOneMore ==
  ASSUME NEW f \in [Age -> Nat]
  PROVE  /\ OneMore(f) \in [Age -> Nat]
         /\ \A a \in Age : SumTo(OneMore(f))[a] = SumTo(f)[a] + 1
<1> DEFINE h == OneMore(f)
           S == {a \in Age : SumTo(h)[a] = SumTo(f)[a] + 1}
<1>1. 0 \in Age
  BY LimitAssumption DEF LimitAssumption, Age
<1>2. h \in [Age -> Nat] /\ h[0] = f[0] + 1 /\ \A a \in Age : a > 0 => h[a] = f[a]
  BY <1>1 DEF OneMore
<1> HIDE DEF h
<1>3. /\ SumTo(h) \in [Age -> Nat] /\ PartialSums(h, SumTo(h))
      /\ SumTo(f) \in [Age -> Nat] /\ PartialSums(f, SumTo(f))
  BY <1>2, SumToIs
<1>4. 0 \in S
  BY <1>1, <1>2, <1>3 DEF PartialSums
<1>5. \A a \in Age : a > 0 /\ a - 1 \in S => a \in S
  <2> TAKE a \in Age
  <2> HAVE a > 0 /\ a - 1 \in S
  <2>1. a - 1 \in Age /\ SumTo(h)[a - 1] = SumTo(f)[a - 1] + 1
    OBVIOUS
  <2>2. SumTo(h)[a] = SumTo(h)[a - 1] + f[a] /\ SumTo(f)[a] = SumTo(f)[a - 1] + f[a]
    BY <1>2, <1>3 DEF PartialSums
  <2>3. SumTo(f)[a - 1] \in Nat /\ f[a] \in Nat
    BY <2>1, <1>3
  <2> QED
    BY <2>1, <2>2, <2>3
<1>6. Age \subseteq S
  <2> HIDE DEF S
  <2> QED
    BY <1>4, <1>5, AllAges
<1> QED
  BY <1>2, <1>6 DEF h

(* A tick later. *)
LEMMA SumOfOlder ==
  ASSUME NEW f \in [Age -> Nat]
  PROVE  /\ Older(f) \in [Age -> Nat]
         /\ SumTo(Older(f))[0] = 0
         /\ \A a \in Age : a > 0 => SumTo(Older(f))[a] = SumTo(f)[a - 1]
<1> DEFINE h == Older(f)
           S == {0} \cup {a \in Age : SumTo(h)[a] = SumTo(f)[a - 1]}
<1>1. 0 \in Age /\ \A a \in Age : a > 0 => a - 1 \in Age
  BY LimitAssumption DEF LimitAssumption, Age
<1>2. h \in [Age -> Nat] /\ h[0] = 0 /\ \A a \in Age : a > 0 => h[a] = f[a - 1]
  BY <1>1 DEF Older, Age
<1> HIDE DEF h
<1>3. /\ SumTo(h) \in [Age -> Nat] /\ PartialSums(h, SumTo(h))
      /\ SumTo(f) \in [Age -> Nat] /\ PartialSums(f, SumTo(f))
  BY <1>2, SumToIs
<1>4. SumTo(h)[0] = 0
  BY <1>2, <1>3 DEF PartialSums
<1>5. \A a \in Age : a > 0 /\ a - 1 \in S => a \in S
  <2> TAKE a \in Age
  <2> HAVE a > 0 /\ a - 1 \in S
  <2>1. a - 1 \in Age /\ SumTo(h)[a] = SumTo(h)[a - 1] + f[a - 1]
    BY <1>1, <1>2, <1>3 DEF PartialSums
  <2>2. CASE a - 1 = 0
    BY <2>1, <2>2, <1>3, <1>4 DEF PartialSums
  <2>3. CASE a - 1 # 0
    <3>1. SumTo(h)[a - 1] = SumTo(f)[a - 1 - 1]
      BY <2>3
    <3>2. a - 1 > 0
      BY <2>3 DEF Age
    <3>3. SumTo(f)[a - 1] = SumTo(f)[a - 1 - 1] + f[a - 1]
      BY <3>2, <2>1, <1>3 DEF PartialSums
    <3> QED
      BY <2>1, <3>1, <3>3
  <2> QED
    BY <2>2, <2>3
<1>6. Age \subseteq S
  <2>1. 0 \in S
    OBVIOUS
  <2> HIDE DEF S
  <2> QED
    BY <2>1, <1>5, AllAges
<1> QED
  BY <1>2, <1>4, <1>6 DEF h

(* A longer stretch has at least as many, and the first age is in all.     *)
LEMMA SumGrows ==
  ASSUME NEW f \in [Age -> Nat], NEW a \in Age
  PROVE  /\ f[0] <= SumTo(f)[a]
         /\ \A b \in Age : a <= b => SumTo(f)[a] <= SumTo(f)[b]
<1> DEFINE Grows(m) == {b \in Age : m <= b => SumTo(f)[m] <= SumTo(f)[b]}
<1>1. SumTo(f) \in [Age -> Nat] /\ PartialSums(f, SumTo(f))
  BY SumToIs
<1>2. 0 \in Age
  BY LimitAssumption DEF LimitAssumption, Age
<1>3. ASSUME NEW m \in Age PROVE Age \subseteq Grows(m)
  <2>1. 0 \in Grows(m)
    BY <1>1, <1>2 DEF Age
  <2>2. \A b \in Age : b > 0 /\ b - 1 \in Grows(m) => b \in Grows(m)
    <3> TAKE b \in Age
    <3> HAVE b > 0 /\ b - 1 \in Grows(m)
    <3> SUFFICES ASSUME m <= b PROVE SumTo(f)[m] <= SumTo(f)[b]
      OBVIOUS
    <3>1. b - 1 \in Age /\ SumTo(f)[b] = SumTo(f)[b - 1] + f[b]
      BY <1>1 DEF PartialSums
    <3>2. SumTo(f)[b - 1] \in Nat /\ SumTo(f)[b] \in Nat /\ f[b] \in Nat
      BY <3>1, <1>1
    <3>3. m = b \/ m <= b - 1
      BY DEF Age
    <3>4. SumTo(f)[m] \in Nat /\ (m <= b - 1 => SumTo(f)[m] <= SumTo(f)[b - 1])
      BY <1>1
    <3>5. CASE m = b
      BY <3>4, <3>5
    <3>6. CASE m <= b - 1
      BY <3>1, <3>2, <3>4, <3>6
    <3> QED
      BY <3>3, <3>5, <3>6
  <2> HIDE DEF Grows
  <2> QED
    BY <2>1, <2>2, AllAges
<1>4. SumTo(f)[0] = f[0] /\ 0 <= a
  BY <1>1 DEF PartialSums, Age
<1> QED
  BY <1>2, <1>3, <1>4

(* More at every age is more in all. *)
LEMMA SumOfFewer ==
  ASSUME NEW f \in [Age -> Nat], NEW h \in [Age -> Nat], \A a \in Age : f[a] <= h[a]
  PROVE  \A a \in Age : SumTo(f)[a] <= SumTo(h)[a]
<1> DEFINE S == {a \in Age : SumTo(f)[a] <= SumTo(h)[a]}
<1>1. /\ SumTo(h) \in [Age -> Nat] /\ PartialSums(h, SumTo(h))
      /\ SumTo(f) \in [Age -> Nat] /\ PartialSums(f, SumTo(f))
  BY SumToIs
<1>2. 0 \in S
  BY <1>1, LimitAssumption DEF LimitAssumption, Age, PartialSums
<1>3. \A a \in Age : a > 0 /\ a - 1 \in S => a \in S
  <2> TAKE a \in Age
  <2> HAVE a > 0 /\ a - 1 \in S
  <2>1. a - 1 \in Age /\ SumTo(f)[a - 1] <= SumTo(h)[a - 1]
    OBVIOUS
  <2>2. SumTo(h)[a] = SumTo(h)[a - 1] + h[a] /\ SumTo(f)[a] = SumTo(f)[a - 1] + f[a]
    BY <1>1 DEF PartialSums
  <2>3. SumTo(f)[a - 1] \in Nat /\ SumTo(h)[a - 1] \in Nat /\ f[a] \in Nat /\ h[a] \in Nat
    BY <2>1, <1>1
  <2> QED
    BY <2>1, <2>2, <2>3
<1>4. Age \subseteq S
  <2> HIDE DEF S
  <2> QED
    BY <1>2, <1>3, AllAges
<1> QED
  BY <1>4

-----------------------------------------------------------------------------
(* What is counted in the current slot of the clock, by the counter and in *)
(* what has passed.                                                        *)
Counter(s, k) == IF s = "redis" THEN shared[k] ELSE own[s][k]
Now(s, k) == SumTo(passed[s][k])[phase]

LimitTypes ==
  /\ option \in Options
  /\ phase \in 0 .. Window - 1
  /\ shared \in [LimitKey -> Nat] /\ own \in [Process -> [LimitKey -> Nat]]
  /\ backend \in [Process -> {"none", "redis", "local"}]
  /\ records \in [Process -> [LimitKey -> [Age -> Nat]]]
  /\ passed \in [Source -> [LimitKey -> [Age -> Nat]]]

(* A process lets nobody pass before it knows its backend, and only one    *)
(* that found no Redis counts by slots itself.                             *)
BackendsFit ==
  \A w \in Process :
    /\ ~option.redis => backend[w] = "none"
    /\ option.redis /\ backend[w] = "none" => \A k \in LimitKey : passed[w][k] = NoRequests
    /\ backend[w] # "local" => \A k \in LimitKey : own[w][k] = 0

(* The records of a process are of requests that passed. *)
RecordsPassed ==
  \A w \in Process, k \in LimitKey, a \in Age : records[w][k][a] <= passed[w][k][a]

(* Who counts by records has them all, unless they were dropped. *)
OwnCounted ==
  \A w \in Process, k \in LimitKey \ forgot : ~Slotted(w) =>
    records[w][k] = passed[w][k] /\ Recently(w, k) <= Limit(k)

(* Who counts by slots lets at most the limit pass in the current slot,    *)
(* and no more in what is left of the one before.                          *)
SlotBounded(s, k) ==
  /\ Now(s, k) <= Counter(s, k) /\ Now(s, k) <= Limit(k)
  /\ Recently(s, k) <= Now(s, k) + Limit(k)

(* A counter is at its limit only if as many have passed.                  *)
SlotUsed(s, k) == Counter(s, k) <= Now(s, k) \/ Limit(k) <= Now(s, k)

SlotsCounted ==
  \A s \in Source, k \in LimitKey : Slotted(s) =>
    /\ SlotBounded(s, k)
    /\ (s = "redis" /\ lost) \/ SlotUsed(s, k)

LimitInvariant ==
  /\ LimitTypes
  /\ BackendsFit
  /\ RecordsPassed
  /\ OwnCounted
  /\ SlotsCounted

LEMMA LimitsAreNumbers ==
  ASSUME LimitTypes, NEW k \in LimitKey
  PROVE  Limit(k) \in Nat
BY LimitAssumption DEF LimitAssumption, LimitTypes, Limit

LEMMA SumsAreNumbers ==
  ASSUME LimitTypes, NEW s \in Source, NEW k \in LimitKey
  PROVE  /\ passed[s][k] \in [Age -> Nat]
         /\ phase \in Age /\ Window \in Age /\ 0 \in Age
         /\ Now(s, k) \in Nat /\ Recently(s, k) \in Nat /\ Counter(s, k) \in Nat
         /\ passed[s][k][0] <= Now(s, k) /\ Now(s, k) <= Recently(s, k)
<1> USE LimitAssumption DEF LimitAssumption, LimitTypes
<1>1. passed[s][k] \in [Age -> Nat]
  OBVIOUS
<1>2. phase \in Age /\ Window \in Age /\ 0 \in Age /\ phase <= Window
  BY DEF Age
<1>3. SumTo(passed[s][k]) \in [Age -> Nat]
  BY <1>1, SumToIs
<1>4. Counter(s, k) \in Nat
  BY DEF Counter, Source
<1>5. /\ passed[s][k][0] <= SumTo(passed[s][k])[phase]
      /\ SumTo(passed[s][k])[phase] <= SumTo(passed[s][k])[Window]
  BY <1>1, <1>2, SumGrows
<1> QED
  BY <1>1, <1>2, <1>3, <1>4, <1>5 DEF Now, Recently, Sum

LEMMA InitLimits == LimitInit => LimitInvariant
<1> SUFFICES ASSUME LimitInit PROVE LimitInvariant
  OBVIOUS
<1> USE DEF LimitInit
<1>1. NoRequests \in [Age -> Nat] /\ Zero \in [LimitKey -> Nat]
  BY DEF NoRequests, Zero
<1>2. LimitTypes
  BY <1>1 DEF LimitTypes
<1>3. BackendsFit
  BY DEF BackendsFit, Zero, Source
<1>4. \A w \in Process, k \in LimitKey : records[w][k] = NoRequests /\ passed[w][k] = NoRequests
  BY DEF Source
<1>5. \A s \in Source, k \in LimitKey : Now(s, k) = 0 /\ Recently(s, k) = 0 /\ Counter(s, k) = 0
  <2> TAKE s \in Source, k \in LimitKey
  <2>1. passed[s][k] = NoRequests
    OBVIOUS
  <2>2. Counter(s, k) = 0
    BY DEF Counter, Source, Zero
  <2> QED
    BY <2>1, <2>2, <1>2, SumsAreNumbers, SumOfNone DEF Now, Recently, Sum
<1>6. \A k \in LimitKey : Limit(k) \in Nat
  BY <1>2, LimitsAreNumbers
<1>7. RecordsPassed
  <2> SUFFICES ASSUME NEW w \in Process, NEW k \in LimitKey, NEW a \in Age
               PROVE  records[w][k][a] <= passed[w][k][a]
    BY DEF RecordsPassed
  <2>1. records[w][k][a] = NoRequests[a] /\ passed[w][k][a] = NoRequests[a] /\ NoRequests[a] = 0
    BY <1>4 DEF NoRequests
  <2> QED
    BY <2>1
<1>8. OwnCounted
  <2> SUFFICES ASSUME NEW w \in Process, NEW k \in LimitKey
               PROVE  records[w][k] = passed[w][k] /\ Recently(w, k) <= Limit(k)
    BY DEF OwnCounted
  <2>1. w \in Source
    BY DEF Source
  <2> QED
    BY <2>1, <1>4, <1>5, <1>6
<1>9. SlotsCounted
  BY <1>5, <1>6 DEF SlotsCounted, SlotBounded, SlotUsed
<1> QED
  BY <1>2, <1>3, <1>7, <1>8, <1>9 DEF LimitInvariant

-----------------------------------------------------------------------------
(* One check.  Source s lets one more request pass for key k.              *)
Passed(s, k) == passed' = [passed EXCEPT ![s] = [passed[s] EXCEPT ![k] = OneMore(passed[s][k])]]

LEMMA PassesOrNot ==
  ASSUME LimitTypes, NEW s \in Source, NEW k \in LimitKey, Passes(s, k)
  PROVE  \/ passed[s][k][0] <= Promised(s, k) /\ Passed(s, k)
         \/ passed[s][k][0] > Promised(s, k) /\ passed' = passed
<1>1. 0 \in Age /\ passed[s][k] \in [Age -> Nat] /\ Promised(s, k) \in Nat
  BY SumsAreNumbers, LimitsAreNumbers DEF Promised
<1>2. CASE passed[s][k][0] > Promised(s, k)
  BY <1>1, <1>2 DEF Passes, LimitTypes
<1>3. CASE ~ (passed[s][k][0] > Promised(s, k))
  <2>1. passed[s][k][0] <= Promised(s, k)
    BY <1>1, <1>3
  <2>2. passed' = [passed EXCEPT ![s] = [passed[s] EXCEPT ![k] =
                     [passed[s][k] EXCEPT ![0] = passed[s][k][0] + 1]]]
    BY <1>3, Zenon DEF Passes
  <2>3. Passed(s, k)
    BY <2>2, Zenon DEF Passed, OneMore
  <2> QED
    BY <2>1, <2>3
<1> QED
  BY <1>1, <1>2, <1>3

LEMMA PassesOneMore ==
  ASSUME LimitTypes, NEW s \in Source, NEW k \in LimitKey, Passes(s, k),
         Recently(s, k) <= Promised(s, k)
  PROVE  Passed(s, k)
<1>1. passed[s][k][0] <= Promised(s, k) /\ passed[s][k][0] \in Nat /\ Promised(s, k) \in Nat
  BY SumsAreNumbers, LimitsAreNumbers DEF Promised
<1> QED
  BY <1>1, PassesOrNot

LEMMA AfterPassing ==
  ASSUME LimitTypes, NEW s \in Source, NEW k \in LimitKey, Passed(s, k), phase' = phase
  PROVE  /\ passed' \in [Source -> [LimitKey -> [Age -> Nat]]]
         /\ passed'[s][k] = OneMore(passed[s][k])
         /\ Now(s, k)' = Now(s, k) + 1 /\ Recently(s, k)' = Recently(s, k) + 1
         /\ \A t \in Source, j \in LimitKey :
              ~ (t = s /\ j = k) => passed'[t][j] = passed[t][j]
<1>1. OneMore(passed[s][k]) \in [Age -> Nat]
  BY SumOfOneMore, SumsAreNumbers
<1>2. passed'[s][k] = OneMore(passed[s][k])
  BY DEF LimitTypes, Passed
<1>3. \A a \in Age : SumTo(passed'[s][k])[a] = SumTo(passed[s][k])[a] + 1
  BY <1>2, SumOfOneMore, SumsAreNumbers
<1>4. phase \in Age /\ Window \in Age
  BY SumsAreNumbers
<1> QED
  BY <1>1, <1>2, <1>3, <1>4 DEF LimitTypes, Passed, Now, Recently, Sum

(* The rest of the window of a key is not touched. *)
LEMMA SameSums ==
  ASSUME NEW s \in Source, NEW k \in LimitKey, passed'[s][k] = passed[s][k], phase' = phase
  PROVE  Now(s, k)' = Now(s, k) /\ Recently(s, k)' = Recently(s, k)
BY DEF Now, Recently, Sum

(* What a check of key k leaves to be shown at its own process and key.    *)
Checked(w, k) ==
  /\ LimitTypes' /\ option' = option /\ phase' = phase /\ backend' = backend
  /\ forgot \subseteq forgot'
  /\ \A v \in Process, j \in LimitKey :
       ~ (v = w /\ j = k) =>
         /\ passed'[v][j] = passed[v][j] /\ own'[v][j] = own[v][j]
         /\ records'[v][j] = records[v][j]
            \/ (v = w /\ records'[v][j] = NoRequests /\ (backend[w] # "local" => j \in forgot'))
  /\ \A j \in LimitKey \ {k} : passed'["redis"][j] = passed["redis"][j] /\ shared'[j] = shared[j]
  /\ lost => lost'

LEMMA CheckedElsewhere ==
  ASSUME LimitInvariant, NEW w \in Process, NEW k \in LimitKey, Checked(w, k),
         backend[w] = "none" => ~option.redis,
         backend[w] # "local" => own'[w][k] = own[w][k],
         \A a \in Age : records'[w][k][a] <= passed'[w][k][a],
         ~Slotted(w) /\ k \notin forgot' =>
           records'[w][k] = passed'[w][k] /\ Recently(w, k)' <= Limit(k),
         \A s \in {"redis", w} : Slotted(s) =>
           SlotBounded(s, k)' /\ ((s = "redis" /\ lost') \/ SlotUsed(s, k)')
  PROVE  LimitInvariant'
<1> USE DEF LimitInvariant, Checked
<1>1. \A j \in LimitKey : Limit(j)' = Limit(j)
  BY DEF Limit
<1>2. \A s \in Source : Slotted(s)' = Slotted(s)
  BY DEF Slotted
<1>3. Process \subseteq Source /\ "redis" \in Source /\ "redis" \notin Process
  BY LimitAssumption DEF LimitAssumption, Source
<1>4. \A a \in Age : NoRequests[a] = 0
  BY DEF NoRequests
<1>5. BackendsFit'
  BY <1>3 DEF BackendsFit
<1>6. RecordsPassed'
  <2> SUFFICES ASSUME NEW v \in Process, NEW j \in LimitKey, NEW a \in Age
               PROVE  records'[v][j][a] <= passed'[v][j][a]
    BY DEF RecordsPassed
  <2>1. CASE v = w /\ j = k
    BY <2>1
  <2>2. CASE ~ (v = w /\ j = k)
    <3>1. passed'[v][j][a] \in Nat
      BY <1>3 DEF LimitTypes
    <3>2. CASE records'[v][j] = records[v][j]
      BY <2>2, <3>2 DEF RecordsPassed
    <3>3. CASE records'[v][j] = NoRequests
      BY <1>4, <3>1, <3>3
    <3> QED
      BY <2>2, <3>2, <3>3
  <2> QED
    BY <2>1, <2>2
<1>7. OwnCounted'
  <2> SUFFICES ASSUME NEW v \in Process, NEW j \in LimitKey, j \notin forgot', ~Slotted(v)
               PROVE  records'[v][j] = passed'[v][j] /\ Recently(v, j)' <= Limit(j)
    BY <1>1, <1>2, <1>3 DEF OwnCounted
  <2>1. CASE v = w /\ j = k
    BY <2>1
  <2>2. CASE ~ (v = w /\ j = k)
    <3>1. records[v][j] = passed[v][j] /\ Recently(v, j) <= Limit(j)
      BY DEF OwnCounted
    <3>2. records'[v][j] = records[v][j]
      BY <2>2 DEF Slotted
    <3> QED
      BY <2>2, <3>1, <3>2, <1>3, SameSums
  <2> QED
    BY <2>1, <2>2
<1>8. SlotsCounted'
  <2> SUFFICES ASSUME NEW s \in Source, NEW j \in LimitKey, Slotted(s)
               PROVE  SlotBounded(s, j)' /\ ((s = "redis" /\ lost') \/ SlotUsed(s, j)')
    BY <1>2 DEF SlotsCounted
  <2>1. CASE s \in {"redis", w} /\ j = k
    BY <2>1
  <2>2. CASE ~ (s \in {"redis", w} /\ j = k)
    <3>1. passed'[s][j] = passed[s][j] /\ Counter(s, j)' = Counter(s, j)
      BY <2>2, <1>3 DEF Source, Counter
    <3>2. Now(s, j)' = Now(s, j) /\ Recently(s, j)' = Recently(s, j)
      BY <3>1, SameSums
    <3>3. SlotBounded(s, j) /\ ((s = "redis" /\ lost) \/ SlotUsed(s, j))
      BY DEF SlotsCounted
    <3> QED
      BY <1>1, <3>1, <3>2, <3>3 DEF SlotBounded, SlotUsed
  <2> QED
    BY <2>1, <2>2
<1> QED
  BY <1>5, <1>6, <1>7, <1>8

(* The records a check starts with: those of addresses that were dropped   *)
(* are gone.                                                               *)
StartsWith(w, rs) ==
  /\ rs \in [LimitKey -> [Age -> Nat]]
  /\ \A j \in LimitKey : rs[j] = records[w][j] \/ (rs[j] = NoRequests /\ j \in forgot')

LEMMA LocalCheck ==
  ASSUME LimitInvariant, NEW w \in Process, NEW k \in LimitKey, NEW rs, NEW ok \in BOOLEAN,
         StartsWith(w, rs), CheckLocal(w, k, rs, ok), ~Slotted(w), phase' = phase,
         forgot \subseteq forgot'
  PROVE  /\ passed' = passed \/ Passed(w, k)
         /\ records' \in [Process -> [LimitKey -> [Age -> Nat]]]
         /\ \A v \in Process, j \in LimitKey :
              ~ (v = w /\ j = k) => records'[v][j] = IF v = w THEN rs[j] ELSE records[v][j]
         /\ \A a \in Age : records'[w][k][a] <= passed'[w][k][a]
         /\ k \notin forgot' => records'[w][k] = passed'[w][k] /\ Recently(w, k)' <= Limit(k)
<1> USE DEF LimitInvariant
<1>1. w \in Source /\ Limit(k) \in Nat /\ Promised(w, k) = Limit(k)
  BY LimitsAreNumbers DEF Source, Promised
<1>2. 0 \in Age /\ passed[w][k] \in [Age -> Nat] /\ rs[k] \in [Age -> Nat]
  BY <1>1, SumsAreNumbers DEF StartsWith
<1>3. \A a \in Age : rs[k][a] <= passed[w][k][a]
  BY <1>2 DEF StartsWith, RecordsPassed, NoRequests
<1>4. k \notin forgot' => rs[k] = passed[w][k] /\ Recently(w, k) <= Limit(k)
  BY DEF StartsWith, OwnCounted
<1>5. CASE ok
  <2>1. /\ Sum(rs[k]) < Limit(k) /\ Passes(w, k)
        /\ records' = [records EXCEPT ![w] = [rs EXCEPT ![k] = OneMore(rs[k])]]
    BY <1>5 DEF CheckLocal, Recent, Recorded, OneMore
  <2>2. OneMore(rs[k]) \in [Age -> Nat] /\ OneMore(rs[k])[0] = rs[k][0] + 1
        /\ \A a \in Age : a # 0 => OneMore(rs[k])[a] = rs[k][a]
    BY <1>2, SumOfOneMore DEF OneMore
  <2>3. /\ records' \in [Process -> [LimitKey -> [Age -> Nat]]]
        /\ records'[w][k] = OneMore(rs[k])
        /\ \A v \in Process, j \in LimitKey :
             ~ (v = w /\ j = k) => records'[v][j] = IF v = w THEN rs[j] ELSE records[v][j]
    BY <2>1, <2>2 DEF StartsWith, LimitTypes
  <2>4. CASE Passed(w, k)
    <3>1. passed'[w][k] = OneMore(passed[w][k]) /\ Recently(w, k)' = Recently(w, k) + 1
      BY <2>4, <1>1, AfterPassing
    <3>2. \A a \in Age : OneMore(rs[k])[a] <= OneMore(passed[w][k])[a]
      BY <1>2, <1>3 DEF OneMore
    <3>3. k \notin forgot' => Recently(w, k) < Limit(k) /\ Recently(w, k) \in Nat
      BY <1>1, <1>4, <2>1, SumsAreNumbers DEF Recently
    <3> QED
      BY <2>3, <2>4, <3>1, <3>2, <3>3, <1>1, <1>4
  <2>5. CASE passed[w][k][0] > Limit(k) /\ passed' = passed
    <3>1. Window \in Age /\ SumTo(rs[k]) \in [Age -> Nat]
      BY <1>1, <1>2, SumsAreNumbers, SumToIs
    <3>2. rs[k][0] <= Sum(rs[k]) /\ rs[k][0] \in Nat /\ Sum(rs[k]) \in Nat
      BY <1>2, <3>1, SumGrows DEF Sum
    <3>3. rs[k][0] + 1 <= passed[w][k][0]
      BY <1>1, <1>2, <2>1, <2>5, <3>2
    <3>4. \A a \in Age : records'[w][k][a] <= passed'[w][k][a]
      BY <1>3, <2>2, <2>3, <2>5, <3>3
    <3>5. passed[w][k][0] <= Recently(w, k) /\ Recently(w, k) \in Nat
      BY <1>1, SumsAreNumbers
    <3>6. k \in forgot'
      BY <1>1, <1>2, <1>4, <2>5, <3>5
    <3> QED
      BY <2>3, <2>5, <3>4, <3>6
  <2> QED
    BY <1>1, <2>1, <2>4, <2>5, PassesOrNot
<1>6. CASE ~ok
  <2>1. passed' = passed /\ records' = [records EXCEPT ![w] = [rs EXCEPT ![k] = rs[k]]]
    BY <1>6 DEF CheckLocal, Recent, Recorded
  <2>2. /\ records' \in [Process -> [LimitKey -> [Age -> Nat]]]
        /\ records'[w][k] = rs[k]
        /\ \A v \in Process, j \in LimitKey :
             ~ (v = w /\ j = k) => records'[v][j] = IF v = w THEN rs[j] ELSE records[v][j]
    BY <2>1 DEF StartsWith, LimitTypes
  <2>3. k \notin forgot' => Recently(w, k)' <= Limit(k)
    BY <1>1, <1>4, <2>1, SameSums
  <2> QED
    BY <1>3, <1>4, <2>1, <2>2, <2>3
<1> QED
  BY <1>5, <1>6

(* A slot below its limit lets a request pass. *)
LEMMA SlotPasses ==
  ASSUME LimitInvariant, NEW s \in Source, NEW k \in LimitKey, NEW ok \in BOOLEAN, Slotted(s),
         IF ok THEN Passes(s, k) ELSE UNCHANGED passed
  PROVE  (ok /\ Passed(s, k)) \/ (~ok /\ passed' = passed)
<1> USE DEF LimitInvariant
<1>1. /\ Limit(k) \in Nat /\ Now(s, k) \in Nat /\ Recently(s, k) \in Nat
  BY LimitsAreNumbers, SumsAreNumbers
<1>2. Recently(s, k) <= Promised(s, k)
  BY <1>1 DEF SlotsCounted, SlotBounded, Promised
<1>3. CASE ok
  <2>1. Passes(s, k)
    BY <1>3
  <2>2. Passed(s, k)
    BY <1>2, <2>1, PassesOneMore
  <2> QED
    BY <1>3, <2>2
<1>4. CASE ~ok
  BY <1>4
<1> QED
  BY <1>3, <1>4

(* Counting one request in the current slot, and letting it pass or not.   *)
LEMMA SlotCheck ==
  ASSUME LimitInvariant, LimitTypes', NEW s \in Source, NEW k \in LimitKey, NEW ok \in BOOLEAN,
         Slotted(s), phase' = phase, option' = option,
         Counter(s, k)' = Incremented(Counter(s, k), k), ok = Within(Counter(s, k), k),
         IF ok THEN Passes(s, k) ELSE UNCHANGED passed
  PROVE  /\ passed' = passed \/ Passed(s, k)
         /\ SlotBounded(s, k)'
         /\ SlotUsed(s, k) => SlotUsed(s, k)'
<1> USE DEF LimitInvariant
<1>1. Limit(k)' = Limit(k)
  BY DEF Limit
<1>2. /\ Limit(k) \in Nat /\ Counter(s, k) \in Nat
      /\ Now(s, k) \in Nat /\ Recently(s, k) \in Nat
      /\ passed[s][k][0] \in Nat /\ passed[s][k][0] <= Now(s, k)
  BY LimitsAreNumbers, SumsAreNumbers
<1>3. SlotBounded(s, k) /\ Promised(s, k) = 2 * Limit(k)
  BY DEF SlotsCounted, Promised
<1>4. CASE ok
  <2>1. Counter(s, k) + 1 <= Limit(k) /\ Counter(s, k)' = Counter(s, k) + 1
    <3>1. Within(Counter(s, k), k)
      BY <1>4
    <3> QED
      BY <1>2, <3>1 DEF Within, Incremented
  <2>2. Passed(s, k)
    BY <1>2, <1>3, <1>4, PassesOneMore DEF SlotBounded
  <2>3. Now(s, k)' = Now(s, k) + 1 /\ Recently(s, k)' = Recently(s, k) + 1
    BY <2>2, AfterPassing
  <2>4. SlotBounded(s, k)'
    BY <1>1, <1>2, <1>3, <2>1, <2>3 DEF SlotBounded
  <2>5. SlotUsed(s, k) => SlotUsed(s, k)'
    BY <1>1, <1>2, <2>1, <2>3 DEF SlotUsed
  <2> QED
    BY <2>2, <2>4, <2>5
<1>5. CASE ~ok
  <2>1. passed' = passed /\ Counter(s, k) + 1 > Limit(k)
    <3>1. ~Within(Counter(s, k), k) /\ passed' = passed
      BY <1>5
    <3> QED
      BY <1>2, <3>1 DEF Within, Incremented
  <2>2. Now(s, k)' = Now(s, k) /\ Recently(s, k)' = Recently(s, k)
    BY <2>1, SameSums
  <2>3. Counter(s, k)' >= Counter(s, k)
        /\ (Counter(s, k)' = Counter(s, k) \/ Counter(s, k) = Limit(k))
    BY <1>2, <2>1 DEF Incremented
  <2>4. SlotBounded(s, k)'
    BY <1>1, <1>2, <1>3, <2>2, <2>3 DEF SlotBounded, Incremented
  <2>5. SlotUsed(s, k) => SlotUsed(s, k)'
    BY <1>1, <1>2, <2>2, <2>3 DEF SlotUsed
  <2> QED
    BY <2>1, <2>4, <2>5
<1> QED
  BY <1>4, <1>5

(* A slot whose counter went up while nobody passed is bounded still.      *)
LEMMA SlotLost ==
  ASSUME LimitInvariant, NEW s \in Source, NEW k \in LimitKey, Slotted(s),
         phase' = phase, option' = option, passed'[s][k] = passed[s][k],
         Counter(s, k)' \in Nat, Counter(s, k) <= Counter(s, k)'
  PROVE  SlotBounded(s, k)'
<1> USE DEF LimitInvariant
<1>1. Limit(k)' = Limit(k) /\ Now(s, k)' = Now(s, k) /\ Recently(s, k)' = Recently(s, k)
  BY SameSums DEF Limit
<1>2. Counter(s, k) \in Nat /\ Now(s, k) \in Nat
  BY SumsAreNumbers
<1> QED
  BY <1>1, <1>2 DEF SlotsCounted, SlotBounded

(* A slot that is not counted in stays as it is. *)
LEMMA SlotRests ==
  ASSUME LimitInvariant, NEW s \in Source, NEW k \in LimitKey, Slotted(s),
         phase' = phase, option' = option, lost' = lost,
         passed'[s][k] = passed[s][k], Counter(s, k)' = Counter(s, k)
  PROVE  SlotBounded(s, k)' /\ ((s = "redis" /\ lost') \/ SlotUsed(s, k)')
<1>1. Limit(k)' = Limit(k) /\ Now(s, k)' = Now(s, k) /\ Recently(s, k)' = Recently(s, k)
  BY SameSums DEF Limit
<1> QED
  BY <1>1 DEF LimitInvariant, SlotsCounted, SlotBounded, SlotUsed

LEMMA CheckKeeps ==
  ASSUME LimitInvariant, NEW w \in Process, NEW k \in LimitKey, NEW rs, NEW ok \in BOOLEAN,
         StartsWith(w, rs), Check(w, k, rs, ok), UNCHANGED <<option, up, phase, backend>>,
         forgot \subseteq forgot'
  PROVE  LimitInvariant'
<1> USE DEF LimitInvariant
<1>1. /\ w \in Source /\ "redis" \in Source /\ w # "redis"
      /\ Limit(k) \in Nat /\ Limit(k)' = Limit(k)
  BY LimitAssumption, LimitsAreNumbers DEF LimitAssumption, Source, Limit
<1>2. \A n \in Nat : Incremented(n, k) \in Nat /\ n <= Incremented(n, k)
  BY <1>1 DEF Incremented
<1>3. \A s \in Source : Slotted(s)' = Slotted(s)
  BY DEF Slotted
<1>4. /\ Counter("redis", k) = shared[k] /\ Counter("redis", k)' = shared'[k]
      /\ Counter(w, k) = own[w][k] /\ Counter(w, k)' = own'[w][k]
  BY <1>1 DEF Counter
<1>5. Passed(w, k) => /\ passed' \in [Source -> [LimitKey -> [Age -> Nat]]]
                      /\ \A v \in Source, j \in LimitKey :
                           ~ (v = w /\ j = k) => passed'[v][j] = passed[v][j]
  BY <1>1, AfterPassing
<1>6. Passed("redis", k) => /\ passed' \in [Source -> [LimitKey -> [Age -> Nat]]]
                            /\ \A v \in Source, j \in LimitKey :
                                 ~ (v = "redis" /\ j = k) => passed'[v][j] = passed[v][j]
  BY <1>1, AfterPassing
<1>7. ASSUME CheckLocal(w, k, rs, ok), ~Slotted(w), own' = own,
             \/ shared' = [shared EXCEPT ![k] = Incremented(@, k)] /\ lost'
             \/ shared' = shared /\ lost' = lost,
             backend[w] = "none" => ~option.redis
      PROVE  LimitInvariant'
  <2>1. /\ passed' = passed \/ Passed(w, k)
        /\ records' \in [Process -> [LimitKey -> [Age -> Nat]]]
        /\ \A v \in Process, j \in LimitKey :
             ~ (v = w /\ j = k) => records'[v][j] = IF v = w THEN rs[j] ELSE records[v][j]
        /\ \A a \in Age : records'[w][k][a] <= passed'[w][k][a]
        /\ k \notin forgot' => records'[w][k] = passed'[w][k] /\ Recently(w, k)' <= Limit(k)
    BY <1>7, LocalCheck
  <2>2. /\ passed' \in [Source -> [LimitKey -> [Age -> Nat]]]
        /\ \A v \in Source, j \in LimitKey : ~ (v = w /\ j = k) => passed'[v][j] = passed[v][j]
    BY <2>1, <1>5 DEF LimitTypes
  <2>3. /\ shared' \in [LimitKey -> Nat]
        /\ \A j \in LimitKey \ {k} : shared'[j] = shared[j]
        /\ shared[k] <= shared'[k]
    <3>1. shared \in [LimitKey -> Nat] /\ shared[k] \in Nat
      BY DEF LimitTypes
    <3>2. CASE shared' = shared
      BY <3>1, <3>2
    <3>3. CASE shared' = [shared EXCEPT ![k] = Incremented(shared[k], k)]
      BY <1>2, <3>1, <3>3
    <3> QED
      BY <1>7, <3>2, <3>3
  <2>4. LimitTypes'
    BY <1>7, <2>1, <2>2, <2>3 DEF LimitTypes
  <2>5. Checked(w, k)
    <3>1. \A v \in Process, j \in LimitKey :
            ~ (v = w /\ j = k) =>
              /\ passed'[v][j] = passed[v][j] /\ own'[v][j] = own[v][j]
              /\ records'[v][j] = records[v][j]
                 \/ (v = w /\ records'[v][j] = NoRequests /\ (backend[w] # "local" => j \in forgot'))
      <4> TAKE v \in Process, j \in LimitKey
      <4> HAVE ~ (v = w /\ j = k)
      <4>1. v \in Source
        BY DEF Source
      <4>2. passed'[v][j] = passed[v][j] /\ own'[v][j] = own[v][j]
        BY <1>7, <2>2, <4>1
      <4>3. CASE v = w
        BY <2>1, <4>2, <4>3 DEF StartsWith
      <4>4. CASE v # w
        BY <2>1, <4>2, <4>4
      <4> QED
        BY <4>3, <4>4
    <3>2. \A j \in LimitKey \ {k} : passed'["redis"][j] = passed["redis"][j] /\ shared'[j] = shared[j]
      BY <1>1, <2>2, <2>3
    <3> QED
      BY <1>7, <2>4, <3>1, <3>2 DEF Checked
  <2>6. passed'["redis"][k] = passed["redis"][k]
    BY <1>1, <2>2
  <2>7. SlotBounded("redis", k)' /\ (lost' \/ SlotUsed("redis", k)')
    <3>1. CASE shared' = shared /\ lost' = lost
      BY <3>1, <1>1, <1>4, <2>6, SlotRests DEF Slotted
    <3>2. CASE lost'
      <4>1. Slotted("redis") /\ Counter("redis", k)' \in Nat
            /\ Counter("redis", k) <= Counter("redis", k)'
        BY <1>4, <2>3 DEF Slotted
      <4> QED
        BY <3>2, <4>1, <1>1, <2>6, SlotLost
    <3> QED
      BY <1>7, <3>1, <3>2
  <2> QED
    BY <1>7, <2>1, <2>5, <2>7, CheckedElsewhere
<1>8. CASE ~option.redis
  <2>1. backend[w] = "none" /\ ~Slotted(w)
    BY <1>1, <1>8 DEF BackendsFit, Slotted
  <2>2. CheckLocal(w, k, rs, ok) /\ UNCHANGED <<shared, own, lost>>
    BY <1>8 DEF Check
  <2> QED
    BY <1>7, <1>8, <2>1, <2>2
<1>9. ASSUME option.redis, backend[w] = "redis", up,
             shared' = [shared EXCEPT ![k] = Incremented(@, k)], own' = own,
             ok = Within(shared[k], k),
             IF ok THEN Passes("redis", k) ELSE UNCHANGED passed,
             records' = [records EXCEPT ![w] = rs], lost' = lost
      PROVE  LimitInvariant'
  <2>1. Counter("redis", k)' = Incremented(Counter("redis", k), k)
        /\ ok = Within(Counter("redis", k), k) /\ Slotted("redis") /\ ~Slotted(w)
    BY <1>1, <1>4, <1>9 DEF LimitTypes, Slotted
  <2>2. /\ shared' \in [LimitKey -> Nat] /\ \A j \in LimitKey \ {k} : shared'[j] = shared[j]
    BY <1>2, <1>9 DEF LimitTypes
  <2>3. /\ records' \in [Process -> [LimitKey -> [Age -> Nat]]]
        /\ \A v \in Process, j \in LimitKey :
             records'[v][j] = IF v = w THEN rs[j] ELSE records[v][j]
    BY <1>9 DEF StartsWith, LimitTypes
  <2>4. passed' = passed \/ Passed("redis", k)
    BY <1>1, <1>9, <2>1, SlotPasses
  <2>5. /\ passed' \in [Source -> [LimitKey -> [Age -> Nat]]]
        /\ \A v \in Source, j \in LimitKey : ~ (v = "redis" /\ j = k) => passed'[v][j] = passed[v][j]
    BY <2>4, <1>6 DEF LimitTypes
  <2>6. LimitTypes'
    BY <1>9, <2>2, <2>3, <2>5 DEF LimitTypes
  <2>7. Checked(w, k)
    <3>1. \A v \in Process, j \in LimitKey :
            ~ (v = w /\ j = k) =>
              /\ passed'[v][j] = passed[v][j] /\ own'[v][j] = own[v][j]
              /\ records'[v][j] = records[v][j]
                 \/ (v = w /\ records'[v][j] = NoRequests /\ (backend[w] # "local" => j \in forgot'))
      <4>1. \A v \in Process : v \in Source /\ v # "redis"
        BY LimitAssumption DEF LimitAssumption, Source
      <4> TAKE v \in Process, j \in LimitKey
      <4> HAVE ~ (v = w /\ j = k)
      <4>2. passed'[v][j] = passed[v][j] /\ own'[v][j] = own[v][j]
        BY <1>9, <2>5, <4>1
      <4>3. CASE v = w
        BY <2>3, <4>2, <4>3 DEF StartsWith
      <4>4. CASE v # w
        BY <2>3, <4>2, <4>4
      <4> QED
        BY <4>3, <4>4
    <3>2. \A j \in LimitKey \ {k} : passed'["redis"][j] = passed["redis"][j] /\ shared'[j] = shared[j]
      BY <1>1, <2>2, <2>5
    <3> QED
      BY <1>9, <2>6, <3>1, <3>2 DEF Checked
  <2>8. SlotBounded("redis", k)' /\ (SlotUsed("redis", k) => SlotUsed("redis", k)')
    BY <1>1, <1>9, <2>1, <2>6, SlotCheck
  <2>9. lost \/ SlotUsed("redis", k)
    BY <1>1, <2>1 DEF SlotsCounted
  <2>10. passed'[w][k] = passed[w][k] /\ passed[w][k] \in [Age -> Nat]
    BY <1>1, <2>5 DEF LimitTypes
  <2>11. \A a \in Age : records'[w][k][a] <= passed'[w][k][a]
    BY <2>3, <2>10 DEF StartsWith, RecordsPassed, NoRequests
  <2>12. k \notin forgot' => records'[w][k] = passed'[w][k] /\ Recently(w, k)' <= Limit(k)
    BY <1>1, <2>1, <2>3, <2>10, SameSums DEF StartsWith, OwnCounted
  <2> QED
    BY <1>9, <2>1, <2>7, <2>8, <2>9, <2>11, <2>12, CheckedElsewhere
<1>10. ASSUME option.redis, backend[w] = "local",
              own' = [own EXCEPT ![w][k] = Incremented(@, k)], shared' = shared,
              ok = Within(own[w][k], k),
              IF ok THEN Passes(w, k) ELSE UNCHANGED passed,
              records' = [records EXCEPT ![w] = rs], lost' = lost
       PROVE  LimitInvariant'
  <2>1. /\ own' \in [Process -> [LimitKey -> Nat]] /\ own'[w][k] = Incremented(own[w][k], k)
        /\ \A v \in Process, j \in LimitKey : ~ (v = w /\ j = k) => own'[v][j] = own[v][j]
    BY <1>2, <1>10 DEF LimitTypes
  <2>2. Counter(w, k)' = Incremented(Counter(w, k), k)
        /\ ok = Within(Counter(w, k), k) /\ Slotted("redis") /\ Slotted(w)
    BY <1>1, <1>4, <1>10, <2>1 DEF Slotted
  <2>3. /\ records' \in [Process -> [LimitKey -> [Age -> Nat]]]
        /\ \A v \in Process, j \in LimitKey :
             records'[v][j] = IF v = w THEN rs[j] ELSE records[v][j]
    BY <1>10 DEF StartsWith, LimitTypes
  <2>4. passed' = passed \/ Passed(w, k)
    BY <1>1, <1>10, <2>2, SlotPasses
  <2>5. /\ passed' \in [Source -> [LimitKey -> [Age -> Nat]]]
        /\ \A v \in Source, j \in LimitKey : ~ (v = w /\ j = k) => passed'[v][j] = passed[v][j]
    BY <2>4, <1>5 DEF LimitTypes
  <2>6. LimitTypes'
    BY <1>10, <2>1, <2>3, <2>5 DEF LimitTypes
  <2>7. Checked(w, k)
    <3>1. \A v \in Process, j \in LimitKey :
            ~ (v = w /\ j = k) =>
              /\ passed'[v][j] = passed[v][j] /\ own'[v][j] = own[v][j]
              /\ records'[v][j] = records[v][j]
                 \/ (v = w /\ records'[v][j] = NoRequests /\ (backend[w] # "local" => j \in forgot'))
      <4>1. \A v \in Process : v \in Source
        BY DEF Source
      <4> TAKE v \in Process, j \in LimitKey
      <4> HAVE ~ (v = w /\ j = k)
      <4>2. passed'[v][j] = passed[v][j] /\ own'[v][j] = own[v][j]
        BY <2>1, <2>5, <4>1
      <4>3. CASE v = w
        BY <2>3, <4>2, <4>3 DEF StartsWith
      <4>4. CASE v # w
        BY <2>3, <4>2, <4>4
      <4> QED
        BY <4>3, <4>4
    <3>2. \A j \in LimitKey \ {k} : passed'["redis"][j] = passed["redis"][j] /\ shared'[j] = shared[j]
      BY <1>1, <1>10, <2>5
    <3> QED
      BY <1>10, <2>6, <3>1, <3>2 DEF Checked
  <2>8. SlotBounded(w, k)' /\ (SlotUsed(w, k) => SlotUsed(w, k)')
    BY <1>1, <1>10, <2>2, <2>6, SlotCheck
  <2>9. SlotUsed(w, k)
    BY <1>1, <2>2 DEF SlotsCounted
  <2>10. /\ passed[w][k] \in [Age -> Nat] /\ passed'[w][k] \in [Age -> Nat]
         /\ \A a \in Age : passed[w][k][a] <= passed'[w][k][a]
    <3>1. passed[w][k] \in [Age -> Nat] /\ passed'[w][k] \in [Age -> Nat]
      BY <1>1, <2>5 DEF LimitTypes
    <3>2. Passed(w, k) => passed'[w][k] = OneMore(passed[w][k])
      BY <1>1, AfterPassing
    <3> QED
      BY <2>4, <3>1, <3>2 DEF OneMore
  <2>11. \A a \in Age : records'[w][k][a] <= passed'[w][k][a]
    <3> SUFFICES ASSUME NEW a \in Age PROVE records'[w][k][a] <= passed'[w][k][a]
      OBVIOUS
    <3>1. records'[w][k][a] = records[w][k][a] \/ records'[w][k][a] = 0
      BY <2>3 DEF StartsWith, NoRequests
    <3>2. records[w][k][a] \in Nat /\ records[w][k][a] <= passed[w][k][a]
      BY DEF RecordsPassed, LimitTypes
    <3>3. passed[w][k][a] \in Nat /\ passed'[w][k][a] \in Nat /\ passed[w][k][a] <= passed'[w][k][a]
      BY <2>10
    <3> QED
      BY <3>1, <3>2, <3>3
  <2>12. SlotBounded("redis", k)' /\ (lost' \/ SlotUsed("redis", k)')
    BY <1>1, <1>4, <1>10, <2>2, <2>5, SlotRests
  <2> QED
    BY <1>1, <1>10, <2>2, <2>7, <2>8, <2>9, <2>11, <2>12, CheckedElsewhere
<1>11. ASSUME option.redis, CheckShared(w, k, rs, ok)
       PROVE  LimitInvariant'
  <2>1. CASE backend[w] = "redis" /\ up /\ lost' /\ CheckLocal(w, k, rs, ok)
             /\ shared' = [shared EXCEPT ![k] = Incremented(@, k)] /\ own' = own
    <3>1. ~Slotted(w) /\ backend[w] # "none"
      BY <1>1, <2>1 DEF Slotted
    <3> QED
      BY <1>7, <2>1, <3>1
  <2>2. CASE backend[w] = "redis" /\ ~up /\ CheckLocal(w, k, rs, ok) /\ UNCHANGED <<shared, own, lost>>
    BY <1>1, <1>7, <2>2 DEF Slotted
  <2>3. CASE /\ backend[w] = "redis" /\ up
             /\ shared' = [shared EXCEPT ![k] = Incremented(@, k)] /\ own' = own
             /\ ok = Within(shared[k], k)
             /\ IF ok THEN Passes("redis", k) ELSE UNCHANGED passed
             /\ records' = [records EXCEPT ![w] = rs] /\ lost' = lost
    BY <1>9, <1>11, <2>3
  <2>4. CASE /\ backend[w] = "local"
             /\ own' = [own EXCEPT ![w][k] = Incremented(@, k)] /\ shared' = shared
             /\ ok = Within(own[w][k], k)
             /\ IF ok THEN Passes(w, k) ELSE UNCHANGED passed
             /\ records' = [records EXCEPT ![w] = rs] /\ lost' = lost
    BY <1>10, <1>11, <2>4
  <2> QED
    BY <1>11, <2>1, <2>2, <2>3, <2>4, Zenon DEF CheckShared
<1> QED
  BY <1>8, <1>11 DEF Check

-----------------------------------------------------------------------------
(* The other steps. *)

LEMMA WorkersAreProcesses ==
  ASSUME LimitTypes
  PROVE  option.workers \subseteq Process /\ option.from \subseteq Ip
BY LimitAssumption DEF LimitAssumption, LimitTypes

(* Connecting, and Redis coming and going, count nothing. *)
LEMMA ConnectLimits ==
  ASSUME LimitInvariant, NEW w \in Process, Connect(w)
  PROVE  LimitInvariant'
<1> USE DEF LimitInvariant, Connect, forgotten
<1>1. w \in Source /\ w # "redis" /\ \A k \in LimitKey : Limit(k)' = Limit(k) /\ Limit(k) \in Nat
  BY LimitAssumption, LimitsAreNumbers DEF LimitAssumption, Source, Limit
<1>2. \A k \in LimitKey : passed[w][k] = NoRequests /\ own[w][k] = 0
  BY DEF BackendsFit
<1>3. \A v \in Source \ {w} : Slotted(v)' = Slotted(v)
  BY LimitAssumption DEF LimitAssumption, Slotted, LimitTypes, Source
<1>4. \A s \in Source, k \in LimitKey :
        /\ Now(s, k)' = Now(s, k) /\ Recently(s, k)' = Recently(s, k)
        /\ Counter(s, k)' = Counter(s, k)
  BY DEF Now, Recently, Sum, Counter
<1>5. \A k \in LimitKey : Now(w, k) = 0 /\ Recently(w, k) = 0 /\ Counter(w, k) = 0
  <2> TAKE k \in LimitKey
  <2>1. phase \in Age /\ Window \in Age
    BY <1>1, SumsAreNumbers
  <2> QED
    BY <1>1, <1>2, <2>1, SumOfNone DEF Now, Recently, Sum, Counter
<1>6. LimitTypes'
  BY DEF LimitTypes
<1>7. BackendsFit'
  BY DEF BackendsFit, LimitTypes
<1>8. RecordsPassed'
  BY DEF RecordsPassed
<1>9. OwnCounted'
  <2> SUFFICES ASSUME NEW v \in Process, NEW k \in LimitKey, k \notin forgot, ~Slotted(v)'
               PROVE  records[v][k] = passed[v][k] /\ Recently(v, k) <= Limit(k)
    BY <1>1, <1>4 DEF OwnCounted, Source
  <2>1. ~Slotted(v)
    BY <1>1, <1>3 DEF Slotted, Source
  <2> QED
    BY <2>1 DEF OwnCounted
<1>10. SlotsCounted'
  <2> SUFFICES ASSUME NEW s \in Source, NEW k \in LimitKey, Slotted(s)'
               PROVE  SlotBounded(s, k)' /\ ((s = "redis" /\ lost') \/ SlotUsed(s, k)')
    BY DEF SlotsCounted
  <2>1. CASE s = w
    BY <1>1, <1>4, <1>5, <2>1 DEF SlotBounded, SlotUsed
  <2>2. CASE s # w
    BY <1>1, <1>3, <1>4, <2>2 DEF SlotsCounted, SlotBounded, SlotUsed
  <2> QED
    BY <2>1, <2>2
<1> QED
  BY <1>6, <1>7, <1>8, <1>9, <1>10

LEMMA RestLimits ==
  ASSUME LimitInvariant,
         UNCHANGED <<option, phase, shared, own, backend, records, passed, forgot, lost>>
  PROVE  LimitInvariant'
BY DEF LimitInvariant, LimitTypes, BackendsFit, RecordsPassed, OwnCounted, SlotsCounted,
       SlotBounded, SlotUsed, Slotted, Now, Recently, Sum, Counter, Limit

LEMMA CheckGlobalLimits ==
  ASSUME LimitInvariant, NEW w \in Process, NEW i \in Ip, CheckGlobal(w, i)
  PROVE  LimitInvariant'
<1>1. PICK ok \in BOOLEAN : Check(w, "global", records[w], ok)
  BY DEF CheckGlobal
<1>2. StartsWith(w, records[w])
  BY DEF StartsWith, LimitInvariant, LimitTypes
<1>3. "global" \in LimitKey /\ UNCHANGED <<option, up, phase, backend>> /\ forgot \subseteq forgot'
  BY DEF CheckGlobal, LimitKey
<1> QED
  BY <1>1, <1>2, <1>3, CheckKeeps

LEMMA CheckIpLimits ==
  ASSUME LimitInvariant, NEW w \in Process, NEW i \in Ip, CheckIp(w, i)
  PROVE  LimitInvariant'
<1> DEFINE gone == Members(limiters[w]) \ Members(Pruned(limiters[w]))
           rs == [k \in LimitKey |-> IF k \in gone THEN NoRequests ELSE records[w][k]]
<1>1. PICK ok \in BOOLEAN : Check(w, i, rs, ok)
  BY DEF CheckIp
<1>2. forgot' = forgot \cup gone /\ UNCHANGED <<option, up, phase, backend>>
  BY DEF CheckIp
<1>3. NoRequests \in [Age -> Nat] /\ i \in LimitKey
  BY DEF NoRequests, LimitKey
<1> HIDE DEF gone
<1>4. StartsWith(w, rs)
  BY <1>2, <1>3 DEF StartsWith, LimitInvariant, LimitTypes
<1> HIDE DEF rs
<1> QED
  BY <1>1, <1>2, <1>3, <1>4, CheckKeeps

(* A tick makes everything older, and may begin a slot.                    *)
LEMMA TickSums ==
  ASSUME LimitTypes, Tick, NEW s \in Source, NEW k \in LimitKey
  PROVE  /\ passed'[s][k] = Older(passed[s][k]) /\ Older(passed[s][k]) \in [Age -> Nat]
         /\ Recently(s, k)' \in Nat /\ Recently(s, k)' <= Recently(s, k)
         /\ phase' # 0 => Now(s, k)' = Now(s, k)
         /\ phase' = 0 => Now(s, k)' = 0 /\ Recently(s, k)' = Now(s, k)
<1> USE LimitAssumption DEF LimitAssumption, LimitTypes
<1>1. passed[s][k] \in [Age -> Nat] /\ phase \in Age /\ Window \in Age
  BY SumsAreNumbers
<1>2. /\ Older(passed[s][k]) \in [Age -> Nat] /\ SumTo(Older(passed[s][k]))[0] = 0
      /\ \A a \in Age : a > 0 => SumTo(Older(passed[s][k]))[a] = SumTo(passed[s][k])[a - 1]
  BY <1>1, SumOfOlder
<1>3. passed'[s][k] = Older(passed[s][k])
  BY DEF Tick
<1>4. phase' = IF phase + 1 = Window THEN 0 ELSE phase + 1
  BY DEF Tick, NextPhase
<1>5. Window - 1 \in Age /\ phase + 1 \in Age /\ phase \in Nat
  BY DEF Age
<1>6. Recently(s, k)' = SumTo(passed[s][k])[Window - 1]
  BY <1>1, <1>2, <1>3 DEF Recently, Sum
<1>7. SumTo(passed[s][k])[Window - 1] <= SumTo(passed[s][k])[Window]
  <2>1. Window - 1 <= Window
    OBVIOUS
  <2> QED
    BY <1>1, <1>5, <2>1, SumGrows
<1>8. Recently(s, k)' \in Nat /\ Recently(s, k)' <= Recently(s, k)
  <2>1. SumTo(passed[s][k]) \in [Age -> Nat]
    BY <1>1, SumToIs
  <2> QED
    BY <1>5, <1>6, <1>7, <2>1 DEF Recently, Sum
<1>9. ASSUME phase' # 0 PROVE Now(s, k)' = Now(s, k)
  <2>1. phase' = phase + 1 /\ phase + 1 > 0 /\ (phase + 1) - 1 = phase
    BY <1>4, <1>5, <1>9
  <2>2. SumTo(Older(passed[s][k]))[phase + 1] = SumTo(passed[s][k])[(phase + 1) - 1]
    BY <1>2, <1>5, <2>1
  <2> QED
    BY <1>3, <2>1, <2>2 DEF Now
<1>10. ASSUME phase' = 0 PROVE Now(s, k)' = 0 /\ Recently(s, k)' = Now(s, k)
  <2>1. phase = Window - 1
    BY <1>4, <1>5, <1>10
  <2> QED
    BY <1>2, <1>3, <1>6, <1>10, <2>1 DEF Now
<1> QED
  BY <1>2, <1>3, <1>8, <1>9, <1>10

LEMMA TickLimits ==
  ASSUME LimitInvariant, Tick
  PROVE  LimitInvariant'
<1> USE DEF LimitInvariant
<1>1. \A s \in Source : Slotted(s)' = Slotted(s)
  BY DEF Tick, Slotted
<1>2. \A k \in LimitKey : Limit(k)' = Limit(k) /\ Limit(k) \in Nat
  BY LimitsAreNumbers DEF Tick, Limit
<1>3. Process \subseteq Source /\ "redis" \notin Process
  BY LimitAssumption DEF LimitAssumption, Source
<1>4. \A w \in Process, k \in LimitKey : records[w][k] \in [Age -> Nat]
                                         /\ records'[w][k] = Older(records[w][k])
  BY DEF Tick, LimitTypes
<1>5. \A w \in Process, k \in LimitKey : Older(records[w][k]) \in [Age -> Nat]
  BY <1>4, SumOfOlder
<1>6. \A s \in Source, k \in LimitKey :
        passed'[s][k] = Older(passed[s][k]) /\ Older(passed[s][k]) \in [Age -> Nat]
  BY TickSums
<1>7. phase' \in 0 .. Window - 1
  BY LimitAssumption DEF LimitAssumption, Tick, NextPhase, LimitTypes
<1>8. \/ phase' # 0 /\ shared' = shared /\ own' = own /\ lost' = lost
      \/ phase' = 0 /\ shared' = Zero /\ own' = [w \in Process |-> Zero]
  BY DEF Tick
<1>9. Zero \in [LimitKey -> Nat] /\ \A k \in LimitKey : Zero[k] = 0
  BY DEF Zero
<1>10. LimitTypes'
  <2>1. shared' \in [LimitKey -> Nat] /\ own' \in [Process -> [LimitKey -> Nat]]
    BY <1>8, <1>9 DEF LimitTypes
  <2>2. records' \in [Process -> [LimitKey -> [Age -> Nat]]]
    BY <1>5 DEF Tick
  <2>3. passed' \in [Source -> [LimitKey -> [Age -> Nat]]]
    BY <1>6 DEF Tick
  <2> QED
    BY <1>7, <2>1, <2>2, <2>3 DEF LimitTypes, Tick
<1>11. BackendsFit'
  <2>1. Older(NoRequests) = NoRequests
    BY LimitAssumption DEF LimitAssumption, Older, NoRequests, Age
  <2>2. \A w \in Process, k \in LimitKey : own'[w][k] = own[w][k] \/ own'[w][k] = 0
    BY <1>8, <1>9
  <2>3. option' = option /\ backend' = backend
    BY DEF Tick
  <2> QED
    BY <1>3, <1>6, <2>1, <2>2, <2>3 DEF BackendsFit
<1>12. RecordsPassed'
  <2> SUFFICES ASSUME NEW w \in Process, NEW k \in LimitKey, NEW a \in Age
               PROVE  records'[w][k][a] <= passed'[w][k][a]
    BY DEF RecordsPassed
  <2>1. records'[w][k] = Older(records[w][k]) /\ passed'[w][k] = Older(passed[w][k])
    BY <1>3, <1>4, <1>6
  <2>2. CASE a = 0
    BY <2>1, <2>2 DEF Older
  <2>3. CASE a # 0
    <3>1. a - 1 \in Age
      BY <2>3, LimitAssumption DEF LimitAssumption, Age
    <3>2. records'[w][k][a] = records[w][k][a - 1] /\ passed'[w][k][a] = passed[w][k][a - 1]
      BY <2>1, <2>3 DEF Older
    <3> QED
      BY <3>1, <3>2 DEF RecordsPassed
  <2> QED
    BY <2>2, <2>3
<1>13. OwnCounted'
  <2> SUFFICES ASSUME NEW w \in Process, NEW k \in LimitKey, k \notin forgot, ~Slotted(w)
               PROVE  records'[w][k] = passed'[w][k] /\ Recently(w, k)' <= Limit(k)
    BY <1>1, <1>2, <1>3 DEF OwnCounted, Tick
  <2>1. records[w][k] = passed[w][k] /\ Recently(w, k) <= Limit(k)
    BY DEF OwnCounted
  <2>2. Recently(w, k)' <= Recently(w, k) /\ Recently(w, k) \in Nat /\ Recently(w, k)' \in Nat
    BY <1>3, <1>10, TickSums, SumsAreNumbers
  <2> QED
    BY <1>2, <1>3, <1>4, <1>6, <2>1, <2>2
<1>14. SlotsCounted'
  <2> SUFFICES ASSUME NEW s \in Source, NEW k \in LimitKey, Slotted(s)
               PROVE  SlotBounded(s, k)' /\ ((s = "redis" /\ lost') \/ SlotUsed(s, k)')
    BY <1>1 DEF SlotsCounted
  <2>1. SlotBounded(s, k) /\ ((s = "redis" /\ lost) \/ SlotUsed(s, k))
    BY DEF SlotsCounted
  <2>2. /\ Now(s, k) \in Nat /\ Recently(s, k) \in Nat /\ Recently(s, k)' \in Nat
        /\ Recently(s, k)' <= Recently(s, k)
    BY <1>10, TickSums, SumsAreNumbers
  <2>3. CASE phase' # 0
    <3>1. Now(s, k)' = Now(s, k) /\ Counter(s, k)' = Counter(s, k) /\ lost' = lost
      BY <1>8, <2>3, TickSums DEF Counter
    <3> QED
      BY <1>2, <2>1, <2>2, <3>1 DEF SlotBounded, SlotUsed
  <2>4. CASE phase' = 0
    <3>1. Now(s, k)' = 0 /\ Recently(s, k)' = Now(s, k) /\ Counter(s, k)' = 0
      BY <1>8, <1>9, <2>4, TickSums DEF Counter, Source
    <3> QED
      BY <1>2, <2>1, <2>2, <3>1 DEF SlotBounded, SlotUsed
  <2> QED
    BY <2>3, <2>4
<1> QED
  BY <1>10, <1>11, <1>12, <1>13, <1>14

LEMMA NextLimits == LimitInvariant /\ [LimitNext]_limitVars => LimitInvariant'
<1> SUFFICES ASSUME LimitInvariant, [LimitNext]_limitVars PROVE LimitInvariant'
  OBVIOUS
<1>1. option.workers \subseteq Process /\ option.from \subseteq Ip
  BY WorkersAreProcesses DEF LimitInvariant
<1>2. ASSUME NEW w \in option.workers, Connect(w) PROVE LimitInvariant'
  BY <1>1, <1>2, ConnectLimits
<1>3. ASSUME NEW w \in option.workers, NEW i \in option.from, CheckGlobal(w, i)
      PROVE  LimitInvariant'
  BY <1>1, <1>3, CheckGlobalLimits
<1>4. ASSUME NEW w \in option.workers, NEW i \in option.from, CheckIp(w, i)
      PROVE  LimitInvariant'
  BY <1>1, <1>4, CheckIpLimits
<1>5. CASE Toggle
  BY <1>5, RestLimits DEF Toggle, forgotten
<1>6. CASE Tick
  BY <1>6, TickLimits
<1>7. CASE UNCHANGED limitVars
  BY <1>7, RestLimits DEF limitVars
<1> QED
  BY <1>2, <1>3, <1>4, <1>5, <1>6, <1>7 DEF LimitNext

LEMMA InvariantLimits == LimitInvariant => OwnWindow /\ SharedBurst /\ RefusesOnlyWhenFull
<1> SUFFICES ASSUME LimitInvariant PROVE OwnWindow /\ SharedBurst /\ RefusesOnlyWhenFull
  OBVIOUS
<1> USE DEF LimitInvariant
<1>1. \A s \in Source, k \in LimitKey :
        /\ Limit(k) \in Nat /\ Now(s, k) \in Nat /\ Recently(s, k) \in Nat /\ Counter(s, k) \in Nat
        /\ Now(s, k) <= Recently(s, k)
  BY LimitsAreNumbers, SumsAreNumbers
<1>2. OwnWindow
  BY DEF OwnWindow, OwnCounted
<1>3. SharedBurst
  BY <1>1 DEF SharedBurst, SlotsCounted, SlotBounded
<1>4. ASSUME NEW k \in LimitKey, shared[k] >= Limit(k), ~lost
      PROVE  Recently("redis", k) >= Limit(k)
  <2>1. "redis" \in Source /\ Slotted("redis") /\ Counter("redis", k) = shared[k]
    BY DEF Source, Slotted, Counter
  <2>2. SlotUsed("redis", k)
    BY <1>4, <2>1 DEF SlotsCounted
  <2> QED
    BY <1>1, <1>4, <2>1, <2>2 DEF SlotUsed
<1>5. ASSUME NEW k \in LimitKey, NEW w \in Process, own[w][k] >= Limit(k)
      PROVE  Recently(w, k) >= Limit(k)
  <2>1. w \in Source /\ w # "redis" /\ Counter(w, k) = own[w][k]
    BY LimitAssumption DEF LimitAssumption, Source, Counter
  <2>2. CASE Slotted(w)
    <3>1. SlotUsed(w, k)
      BY <2>1, <2>2 DEF SlotsCounted
    <3> QED
      BY <1>1, <1>5, <2>1, <3>1 DEF SlotUsed
  <2>3. CASE ~Slotted(w)
    <3>1. own[w][k] = 0
      BY <2>3 DEF BackendsFit, Slotted
    <3> QED
      BY <1>1, <1>5, <2>1, <3>1
  <2> QED
    BY <2>2, <2>3
<1>6. ASSUME NEW k \in LimitKey, NEW w \in Process, Sum(records[w][k]) >= Limit(k)
      PROVE  Recently(w, k) >= Limit(k)
  <2>1. w \in Source /\ records[w][k] \in [Age -> Nat] /\ passed[w][k] \in [Age -> Nat]
    BY DEF Source, LimitTypes
  <2>2. \A a \in Age : SumTo(records[w][k])[a] <= SumTo(passed[w][k])[a]
    BY <2>1, SumOfFewer DEF RecordsPassed
  <2>3. Window \in Age /\ SumTo(records[w][k]) \in [Age -> Nat]
    BY <2>1, SumToIs, SumsAreNumbers
  <2> QED
    BY <1>1, <1>6, <2>1, <2>2, <2>3 DEF Recently, Sum
<1>7. RefusesOnlyWhenFull
  BY <1>4, <1>5, <1>6 DEF RefusesOnlyWhenFull
<1> QED
  BY <1>2, <1>3, <1>7

(* No more requests pass than the limits allow, in a process that counts   *)
(* on its own, in a slot of the clock, and over the border of two slots;   *)
(* and a request is refused only when as many have passed.                 *)
THEOREM LimitsAreKept == LimitSpec => []LimitsHold
<1>1. LimitInvariant => LimitsHold
  BY InvariantLimits DEF LimitsHold
<1> QED
  BY <1>1, InitLimits, NextLimits, PTL DEF LimitSpec
=============================================================================
