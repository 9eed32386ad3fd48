------------------------- MODULE AccountPoolProofs -------------------------
(***************************************************************************)
(* Proofs about the slots of the account pool, for any number of accounts, *)
(* tokens and requests and any limits.                                     *)
(*                                                                         *)
(* The inductive invariant adds to the properties that a token the         *)
(* upstream has not issued yet is in no pool and has no slots, so that a   *)
(* rotation adds the slots of the old token to none.                       *)
(***************************************************************************)
EXTENDS AccountPool, TLAPS, FiniteSetTheorems

USE TokenAssumption DEF TokenAssumption
USE BoundsAssumption DEF BoundsAssumption
USE SwitchAssumption DEF SwitchAssumption

Statuses == {"absent", "normal", "limited", "abnormal"}

(* A token that is not issued yet is new to the pool. *)
FreshIsIdle ==
  \A t \in Token \ issued : status[t] = "absent" /\ inflight[t] = 0

(* The upstream refuses a token only while the request may go back. *)
RefusalsBounded ==
  \A r \in Request : out[r] = "invalid" => retries[r] < MaxRetries

TypeInvariant == TypeOK /\ RefusalsBounded

(* What every step preserves. *)
SlotInvariant ==
  /\ TypeInvariant
  /\ FreshIsIdle
  /\ SlotBound
  /\ NoStrandedSlot

-----------------------------------------------------------------------------
(* A counter changed at any token, even at none of the pool, stays one. *)
LEMMA CountTyped ==
  ASSUME NEW f \in [Token -> Nat], NEW t, NEW n, t \in Token => n \in Nat
  PROVE  [f EXCEPT ![t] = n] \in [Token -> Nat]
<1>1. CASE t \in Token
  BY <1>1
<1>2. CASE t \notin Token
  BY <1>2
<1> QED
  BY <1>1, <1>2

LEMMA DecrementTyped ==
  ASSUME NEW n \in Nat
  PROVE  Decrement(n) \in Nat /\ Decrement(n) <= n
BY DEF Decrement

(* Releasing a slot or an egress reservation keeps the counters typed. *)
LEMMA ReleaseTyped ==
  ASSUME TypeOK, NEW t
  PROVE  /\ ReleaseSlot(t) => inflight' \in [Token -> Nat]
         /\ ReleaseEgress(t) => holds' \in [Token -> Nat] /\ node' \in 0..NodeLimit
<1> DEFINE u == Resolve(t)
<1>1. ASSUME ReleaseSlot(t)
      PROVE  inflight' \in [Token -> Nat]
  <2>1. u \in Token => Decrement(inflight[u]) \in Nat
    BY DecrementTyped DEF TypeOK
  <2>2. [inflight EXCEPT ![u] = Decrement(inflight[u])] \in [Token -> Nat]
    BY <2>1, CountTyped DEF TypeOK
  <2> QED
    BY <1>1, <2>2 DEF ReleaseSlot
<1>2. ASSUME ReleaseEgress(t)
      PROVE  holds' \in [Token -> Nat] /\ node' \in 0..NodeLimit
  <2>1. u \in Token => Decrement(holds[u]) \in Nat
    BY DecrementTyped DEF TypeOK
  <2>2. [holds EXCEPT ![u] = Decrement(holds[u])] \in [Token -> Nat]
    BY <2>1, CountTyped DEF TypeOK
  <2>3. Decrement(node) \in 0..NodeLimit
    BY DecrementTyped DEF TypeOK
  <2> QED
    BY <1>2, <2>2, <2>3 DEF ReleaseEgress, TypeOK
<1> QED
  BY <1>1, <1>2

(* Storing an account keeps the pool well typed, whatever the token. *)
LEMMA StoreTyped ==
  ASSUME TypeOK, NEW t, NEW st \in Statuses, NEW q \in 0..MaxQuota,
         Store(t, st, q)
  PROVE  /\ status' \in [Token -> Statuses]
         /\ quota' \in [Token -> 0..MaxQuota]
         /\ open' \subseteq Token
<1>1. status' \in [Token -> Statuses]
  BY DEF TypeOK, Store, Stored, Statuses
<1>2. quota' \in [Token -> 0..MaxQuota]
  <2>1. (IF Stored(st) = "absent" THEN 0 ELSE q) \in 0..MaxQuota
    OBVIOUS
  <2> QED
    BY <2>1 DEF TypeOK, Store
<1>3. open' \subseteq Token
  BY DEF TypeOK, Store
<1> QED
  BY <1>1, <1>2, <1>3

(* Booking a result keeps the pool well typed. *)
LEMMA BookingTyped ==
  ASSUME TypeOK, NEW r \in Request, NEW t, Booking(r, t)
  PROVE  /\ status' \in [Token -> Statuses]
         /\ quota' \in [Token -> 0..MaxQuota]
         /\ open' \subseteq Token
<1>1. CASE ~Live(t) /\ UNCHANGED <<status, quota, open>>
  BY <1>1 DEF TypeOK, Statuses
<1>2. CASE Live(t) /\ BookSuccess(t)
  <2> DEFINE q == IF quota[t] = 0 THEN 0 ELSE quota[t] - 1
             st == CASE q = 0 -> "limited"
                     [] q # 0 /\ status[t] = "limited" -> "normal"
                     [] OTHER -> status[t]
  <2>1. Store(t, st, q)
    BY <1>2 DEF BookSuccess
  <2>2. st \in Statuses /\ q \in 0..MaxQuota
    BY <1>2 DEF TypeOK, Statuses, Live
  <2> QED
    BY <2>1, <2>2, StoreTyped
<1>3. CASE Live(t) /\ Store(t, status[t], quota[t])
  <2>1. status[t] \in Statuses /\ quota[t] \in 0..MaxQuota
    BY <1>3 DEF TypeOK, Statuses, Live
  <2> QED
    BY <1>3, <2>1, StoreTyped
<1> QED
  BY <1>1, <1>2, <1>3 DEF Booking

(* Removing an invalid token keeps the pool and its slots well typed. *)
LEMMA RemoveInvalidTyped ==
  ASSUME TypeOK, NEW t, RemoveInvalid(t)
  PROVE  /\ status' \in [Token -> Statuses]
         /\ quota' \in [Token -> 0..MaxQuota]
         /\ open' \subseteq Token
         /\ alias' \in [Token -> Token \cup {NoToken}]
         /\ inflight' \in [Token -> Nat]
         /\ holds' \in [Token -> Nat]
         /\ UNCHANGED <<issued, node>>
<1>1. CASE Forget(t) /\ UNCHANGED <<issued, node>>
  <2>1. quota' \in [Token -> 0..MaxQuota] /\ status' \in [Token -> Statuses]
    <3>1. CASE t \in Token
      BY <1>1, <3>1 DEF TypeOK, Forget, Statuses
    <3>2. CASE t \notin Token
      BY <1>1, <3>2 DEF TypeOK, Forget, Statuses
    <3> QED
      BY <3>1, <3>2
  <2>2. inflight' \in [Token -> Nat] /\ holds' \in [Token -> Nat]
    BY <1>1 DEF TypeOK, Forget
  <2>3. alias' \in [Token -> Token \cup {NoToken}] /\ open' \subseteq Token
    BY <1>1 DEF TypeOK, Forget
  <2> QED
    BY <1>1, <2>1, <2>2, <2>3
<1>2. CASE Store(t, "abnormal", 0) /\ UNCHANGED <<alias, issued, slotVars>>
  <2>1. "abnormal" \in Statuses /\ 0 \in 0..MaxQuota
    BY DEF Statuses
  <2>2. /\ status' \in [Token -> Statuses]
        /\ quota' \in [Token -> 0..MaxQuota]
        /\ open' \subseteq Token
    BY <1>2, <2>1, StoreTyped
  <2> QED
    BY <1>2, <2>2 DEF TypeOK, slotVars
<1> QED
  BY <1>1, <1>2 DEF RemoveInvalid

(* The requests' own steps keep the types. *)
LEMMA StepTyped ==
  ASSUME TypeOK, RefusalsBounded, NEW r \in Request, Step(r)
  PROVE  TypeOK'
<1> USE DEF accountVars, slotVars, Goto
<1>1. CASE Acquire(r)
  BY <1>1 DEF Acquire, Free, Ready, TypeOK, Locations
<1>2. CASE Refuse(r)
  BY <1>2 DEF Refuse, TypeOK, Locations
<1>3. CASE Gate(r)
  BY <1>3 DEF Gate, TypeOK, Locations
<1>4. CASE FetchOk(r)
  <2> DEFINE t == Resolve(orig[r])
  <2>1. PICK q \in 0..MaxQuota :
          /\ Store(t, IF q = 0 THEN "limited" ELSE "normal", q)
          /\ Goto(r, "fetch", IF q = 0 THEN "reject" ELSE "reserve")
    BY <1>4 DEF FetchOk
  <2>2. /\ status' \in [Token -> Statuses]
        /\ quota' \in [Token -> 0..MaxQuota]
        /\ open' \subseteq Token
    <3>1. (IF q = 0 THEN "limited" ELSE "normal") \in Statuses
      BY DEF Statuses
    <3> QED
      BY <2>1, <3>1, StoreTyped
  <2>3. pc' \in [Request -> Locations]
    BY <2>1 DEF TypeOK, Locations
  <2>4. t \in Token
    BY <1>4 DEF FetchOk, Live
  <2> QED
    BY <1>4, <2>2, <2>3, <2>4 DEF FetchOk, TypeOK, Statuses
<1>5. CASE FetchFails(r)
  BY <1>5 DEF FetchFails, TypeOK, Locations
<1>6. CASE FetchInvalid(r)
  <2>1. RemoveInvalid(Resolve(orig[r]))
    BY <1>6 DEF FetchInvalid
  <2>2. pc' \in [Request -> Locations]
    BY <1>6 DEF FetchInvalid, TypeOK, Locations
  <2> QED
    BY <1>6, <2>1, <2>2, RemoveInvalidTyped DEF FetchInvalid, TypeOK, Statuses
<1>7. CASE Reserve(r)
  BY <1>7 DEF Reserve, TypeOK, Locations
<1>8. CASE Hold(r)
  <2>1. orig[r] \in Token => holds[orig[r]] + 1 \in Nat
    BY DEF TypeOK
  <2>2. [holds EXCEPT ![orig[r]] = holds[orig[r]] + 1] \in [Token -> Nat]
    BY <2>1, CountTyped DEF TypeOK
  <2> QED
    BY <1>8, <2>2 DEF Hold, TypeOK, Locations
<1>9. CASE Reject(r)
  BY <1>9, ReleaseTyped DEF Reject, TypeOK, Locations
<1>10. CASE RejectEgress(r)
  BY <1>10, ReleaseTyped DEF RejectEgress, TypeOK, Locations
<1>11. CASE Check(r)
  BY <1>11 DEF Check, TypeOK, Locations
<1>12. CASE Answer(r)
  BY <1>12 DEF Answer, TypeOK, Locations
<1>13. CASE MarkRelease(r)
  BY <1>13, ReleaseTyped DEF MarkRelease, TypeOK, Locations
<1>14. CASE MarkEgress(r)
  BY <1>14, ReleaseTyped DEF MarkEgress, TypeOK, Locations
<1>15. CASE Book(r)
  <2>1. /\ status' \in [Token -> Statuses]
        /\ quota' \in [Token -> 0..MaxQuota]
        /\ open' \subseteq Token
    BY <1>15, BookingTyped DEF Book
  <2>2. AfterBook(r) \in Locations
    BY DEF AfterBook, Locations
  <2>3. pc' \in [Request -> Locations]
    BY <1>15, <2>2 DEF Book, TypeOK
  <2>4. out' \in [Request -> Outcomes \cup {"none"}]
    BY <1>15 DEF Book, TypeOK, Outcomes
  <2>5. retries' \in [Request -> 0..MaxRetries]
    BY <1>15 DEF Book, AfterBook, MayRetry, TypeOK, RefusalsBounded
  <2> QED
    BY <1>15, <2>1, <2>3, <2>4, <2>5 DEF Book, TypeOK, Statuses
<1>16. CASE Invalid(r)
  <2>1. pc' \in [Request -> Locations]
    BY <1>16 DEF Invalid, TypeOK, Locations
  <2>2. CASE UNCHANGED <<accountVars, slotVars, open>>
    BY <1>16, <2>1, <2>2 DEF Invalid, TypeOK
  <2>3. CASE RemoveInvalid(Resolve(tok[r]))
    BY <1>16, <2>1, <2>3, RemoveInvalidTyped DEF Invalid, TypeOK, Statuses
  <2> QED
    BY <1>16, <2>2, <2>3 DEF Invalid
<1>17. CASE Verify(r)
  <2>1. pc' \in [Request -> Locations]
    BY <1>17 DEF Verify, TypeOK, Locations
  <2>2. CASE UNCHANGED <<accountVars, slotVars, open>>
    BY <1>17, <2>1, <2>2 DEF Verify, TypeOK
  <2>3. CASE RemoveInvalid(Resolve(tok[r]))
    BY <1>17, <2>1, <2>3, RemoveInvalidTyped DEF Verify, TypeOK, Statuses
  <2> QED
    BY <1>17, <2>2, <2>3 DEF Verify
<1> QED
  BY <1>1, <1>2, <1>3, <1>4, <1>5, <1>6, <1>7, <1>8, <1>9, <1>10, <1>11,
     <1>12, <1>13, <1>14, <1>15, <1>16, <1>17 DEF Step

(* So does whatever others do to the pool. *)
LEMMA EnvironmentTyped ==
  ASSUME TypeOK, Environment
  PROVE  TypeOK'
<1> USE DEF accountVars, slotVars, requestVars
<1>1. ASSUME NEW t \in Token, NEW u \in Token, Rotate(t, u)
      PROVE  TypeOK'
  BY <1>1 DEF Rotate, SlotsMoved, TypeOK
<1>2. ASSUME NEW t \in Token, Delete(t)
      PROVE  TypeOK'
  BY <1>2 DEF Delete, Forget, TypeOK
<1>3. ASSUME NEW t \in Token, Import(t)
      PROVE  TypeOK'
  BY <1>3 DEF Import, TypeOK
<1>4. ASSUME NEW t \in Token, BreakerOpens(t) \/ BreakerCools(t)
      PROVE  TypeOK'
  BY <1>4 DEF BreakerOpens, BreakerCools, TypeOK
<1> QED
  BY <1>1, <1>2, <1>3, <1>4 DEF Environment

LEMMA RefusalsStayBounded ==
  ASSUME TypeOK, RefusalsBounded, [Next]_vars
  PROVE  RefusalsBounded'
<1> USE DEF RefusalsBounded
<1>1. ASSUME NEW r \in Request, Step(r)
      PROVE  RefusalsBounded'
  <2>1. CASE Answer(r)
    BY <2>1 DEF Answer, TypeOK
  <2>2. CASE Book(r)
    BY <2>2 DEF Book, TypeOK
  <2>3. CASE UNCHANGED <<out, retries>>
    BY <2>3
  <2> QED
    BY <1>1, <2>1, <2>2, <2>3
       DEF Step, Acquire, Refuse, Gate, FetchOk, FetchFails, FetchInvalid,
           Reserve, Hold, Reject, RejectEgress, Check, MarkRelease, MarkEgress,
           Invalid, Verify
<1>2. CASE Environment
  BY <1>2 DEF Environment, Rotate, Delete, Import, BreakerOpens, BreakerCools,
              requestVars
<1>3. CASE UNCHANGED vars
  BY <1>3 DEF vars, requestVars
<1> QED
  BY <1>1, <1>2, <1>3 DEF Next

LEMMA InitTyped == Init => TypeInvariant
  BY DEF Init, TypeInvariant, RefusalsBounded, TypeOK, Locations, Outcomes

LEMMA NextTyped ==
  ASSUME TypeInvariant, [Next]_vars
  PROVE  TypeInvariant'
<1> USE DEF TypeInvariant
<1>1. CASE UNCHANGED vars
  BY <1>1 DEF vars, accountVars, slotVars, requestVars, TypeOK, RefusalsBounded
<1>2. CASE Next
  BY <1>2, StepTyped, EnvironmentTyped, RefusalsStayBounded DEF Next
<1> QED
  BY <1>1, <1>2

(* Type correctness: among others, the egress of a node is never booked    *)
(* beyond its limit, and no request goes back more often than it may.      *)
THEOREM TypeCorrect == Spec => []TypeOK
<1>1. TypeInvariant => TypeOK
  BY DEF TypeInvariant
<1> QED
  BY InitTyped, NextTyped, <1>1, PTL DEF Spec

-----------------------------------------------------------------------------
(* The slots.  A step that changes no more than the status of accounts in  *)
(* the pool, and takes none out of it unless it zeroes its slots or is the *)
(* removal of a rate limited one, keeps the invariant.                     *)
LEMMA QuietStatus ==
  ASSUME SlotInvariant, TypeInvariant',
         inflight' = inflight, issued' = issued,
         \A t \in Token : ~Live(t) => status'[t] = "absent",
         ~AutoRemoveLimited => \A t \in Token : Live(t) => Live(t)'
  PROVE  SlotInvariant'
<1>1. FreshIsIdle'
  BY DEF SlotInvariant, FreshIsIdle, Live
<1>2. SlotBound' /\ NoStrandedSlot'
  BY DEF SlotInvariant, SlotBound, NoStrandedSlot
<1> QED
  BY <1>1, <1>2 DEF SlotInvariant

LEMMA StoreKeepsSlots ==
  ASSUME SlotInvariant, TypeInvariant', NEW t, NEW st \in Statuses \ {"absent"}, NEW q,
         Live(t), Store(t, st, q), inflight' = inflight, issued' = issued
  PROVE  SlotInvariant'
<1>1. status' = [status EXCEPT ![t] = Stored(st)] /\ t \in Token
  BY DEF Store, Live
<1>2. \A x \in Token : ~Live(x) => status'[x] = "absent"
  BY <1>1 DEF Live, SlotInvariant, TypeInvariant, TypeOK
<1>3. ~AutoRemoveLimited => \A x \in Token : Live(x) => Live(x)'
  BY <1>1 DEF Live, Stored, SlotInvariant, TypeInvariant, TypeOK
<1> QED
  BY <1>2, <1>3, QuietStatus

LEMMA ForgetKeepsSlots ==
  ASSUME SlotInvariant, TypeInvariant', NEW t \in Token, Forget(t), issued' = issued
  PROVE  SlotInvariant'
<1>1. /\ status' = [status EXCEPT ![t] = "absent"]
      /\ inflight' = [inflight EXCEPT ![t] = 0]
  BY DEF Forget
<1>2. status \in [Token -> Statuses] /\ inflight \in [Token -> Nat]
  BY DEF SlotInvariant, TypeInvariant, TypeOK, Statuses
<1>3. FreshIsIdle'
  BY <1>1, <1>2 DEF SlotInvariant, FreshIsIdle
<1>4. SlotBound'
  BY <1>1, <1>2 DEF SlotInvariant, SlotBound
<1>5. NoStrandedSlot'
  BY <1>1, <1>2 DEF SlotInvariant, NoStrandedSlot, Live
<1> QED
  BY <1>3, <1>4, <1>5 DEF SlotInvariant

LEMMA RemoveInvalidKeepsSlots ==
  ASSUME SlotInvariant, TypeInvariant', NEW t, RemoveInvalid(t)
  PROVE  SlotInvariant'
<1>1. CASE Forget(t) /\ UNCHANGED <<issued, node>>
  BY <1>1, ForgetKeepsSlots DEF RemoveInvalid, Live
<1>2. CASE Store(t, "abnormal", 0) /\ UNCHANGED <<alias, issued, slotVars>>
  <2>1. "abnormal" \in Statuses \ {"absent"}
    BY DEF Statuses
  <2> QED
    BY <1>2, <2>1, StoreKeepsSlots DEF RemoveInvalid, slotVars
<1> QED
  BY <1>1, <1>2 DEF RemoveInvalid

LEMMA ReleaseKeepsSlots ==
  ASSUME SlotInvariant, TypeInvariant', NEW t, ReleaseSlot(t), UNCHANGED <<status, issued>>
  PROVE  SlotInvariant'
<1> DEFINE u == Resolve(t)
<1>1. \A x \in Token : inflight'[x] \in Nat /\ inflight'[x] <= inflight[x]
  <2>1. \A x \in Token : inflight[x] \in Nat
    BY DEF SlotInvariant, TypeInvariant, TypeOK
  <2>2. \A x \in Token : inflight'[x] = IF x = u THEN Decrement(inflight[x]) ELSE inflight[x]
    BY DEF ReleaseSlot, SlotInvariant, TypeInvariant, TypeOK
  <2> QED
    BY <2>1, <2>2, DecrementTyped
<1>2. \A x \in Token : inflight[x] \in Nat
  BY DEF SlotInvariant, TypeInvariant, TypeOK
<1>3. FreshIsIdle'
  BY <1>1, <1>2 DEF SlotInvariant, FreshIsIdle
<1>4. SlotBound'
  BY <1>1, <1>2 DEF SlotInvariant, SlotBound
<1>5. NoStrandedSlot'
  BY <1>1, <1>2 DEF SlotInvariant, NoStrandedSlot, Live
<1> QED
  BY <1>3, <1>4, <1>5 DEF SlotInvariant

LEMMA StepKeepsSlots ==
  ASSUME SlotInvariant, TypeInvariant', NEW r \in Request, Step(r)
  PROVE  SlotInvariant'
<1> USE DEF accountVars, slotVars
<1>1. CASE Acquire(r)
  <2>1. PICK t \in Token :
          status[t] = "normal" /\ inflight[t] < MaxConcurrency /\
          inflight' = [inflight EXCEPT ![t] = @ + 1]
    BY <1>1 DEF Acquire, Free, Ready, Available
  <2>2. UNCHANGED <<status, issued>>
    BY <1>1 DEF Acquire
  <2>3. inflight \in [Token -> Nat]
    BY DEF SlotInvariant, TypeInvariant, TypeOK
  <2>4. FreshIsIdle'
    BY <2>1, <2>2, <2>3 DEF SlotInvariant, FreshIsIdle
  <2>5. SlotBound'
    BY <2>1, <2>3 DEF SlotInvariant, SlotBound
  <2>6. NoStrandedSlot'
    BY <2>1, <2>2, <2>3 DEF SlotInvariant, NoStrandedSlot, Live
  <2> QED
    BY <2>4, <2>5, <2>6 DEF SlotInvariant
<1>2. CASE FetchOk(r)
  <2> DEFINE t == Resolve(orig[r])
  <2>1. PICK q \in 0..MaxQuota : Store(t, IF q = 0 THEN "limited" ELSE "normal", q)
    BY <1>2 DEF FetchOk
  <2>2. (IF q = 0 THEN "limited" ELSE "normal") \in Statuses \ {"absent"}
    BY DEF Statuses
  <2>3. Live(t) /\ inflight' = inflight /\ issued' = issued
    BY <1>2 DEF FetchOk
  <2> QED
    BY <2>1, <2>2, <2>3, StoreKeepsSlots
<1>3. CASE FetchInvalid(r)
  BY <1>3, RemoveInvalidKeepsSlots DEF FetchInvalid
<1>4. CASE Reject(r)
  BY <1>4, ReleaseKeepsSlots DEF Reject
<1>5. CASE MarkRelease(r)
  BY <1>5, ReleaseKeepsSlots DEF MarkRelease
<1>6. CASE Book(r)
  <2> DEFINE t == Resolve(tok[r])
  <2>1. inflight' = inflight /\ issued' = issued
    BY <1>6 DEF Book
  <2>2. CASE UNCHANGED <<status, quota, open>>
    BY <2>1, <2>2, QuietStatus DEF Live
  <2>3. CASE Live(t) /\ BookSuccess(t)
    <3> DEFINE q == IF quota[t] = 0 THEN 0 ELSE quota[t] - 1
               st == CASE q = 0 -> "limited"
                       [] q # 0 /\ status[t] = "limited" -> "normal"
                       [] OTHER -> status[t]
    <3>1. Store(t, st, q)
      BY <2>3 DEF BookSuccess
    <3>2. st \in Statuses \ {"absent"}
      BY <2>3 DEF SlotInvariant, TypeInvariant, TypeOK, Live, Statuses
    <3> QED
      BY <2>1, <2>3, <3>1, <3>2, StoreKeepsSlots
  <2>4. CASE Live(t) /\ Store(t, status[t], quota[t])
    <3>1. status[t] \in Statuses \ {"absent"}
      BY <2>4 DEF SlotInvariant, TypeInvariant, TypeOK, Live, Statuses
    <3> QED
      BY <2>1, <2>4, <3>1, StoreKeepsSlots
  <2> QED
    BY <1>6, <2>2, <2>3, <2>4 DEF Book, Booking
<1>7. CASE Invalid(r)
  <2>1. CASE UNCHANGED <<accountVars, slotVars, open>>
    BY <2>1, QuietStatus DEF Live
  <2>2. CASE RemoveInvalid(Resolve(tok[r]))
    BY <2>2, RemoveInvalidKeepsSlots
  <2> QED
    BY <1>7, <2>1, <2>2 DEF Invalid
<1>8. CASE Verify(r)
  <2>1. CASE UNCHANGED <<accountVars, slotVars, open>>
    BY <2>1, QuietStatus DEF Live
  <2>2. CASE RemoveInvalid(Resolve(tok[r]))
    BY <2>2, RemoveInvalidKeepsSlots
  <2> QED
    BY <1>8, <2>1, <2>2 DEF Verify
<1>9. CASE UNCHANGED <<status, inflight, issued>>
  BY <1>9, QuietStatus DEF Live
<1> QED
  BY <1>1, <1>2, <1>3, <1>4, <1>5, <1>6, <1>7, <1>8, <1>9
     DEF Step, Refuse, Gate, FetchFails, Reserve, Hold, RejectEgress, Check,
         Answer, MarkEgress

LEMMA RotateKeepsSlots ==
  ASSUME SlotInvariant, TypeInvariant', NEW old \in Token, NEW new \in Token,
         Rotate(old, new)
  PROVE  SlotInvariant'
<1>1. inflight \in [Token -> Nat] /\ status \in [Token -> Statuses]
  BY DEF SlotInvariant, TypeInvariant, TypeOK, Statuses
<1>2. status[new] = "absent" /\ inflight[new] = 0 /\ new # old
  BY DEF Rotate, Live, SlotInvariant, FreshIsIdle
<1>3. \A x \in Token :
        inflight'[x] = IF x = old THEN 0
                       ELSE IF x = new THEN inflight[old] ELSE inflight[x]
  BY <1>1, <1>2 DEF Rotate, SlotsMoved
<1>4. \A x \in Token :
        status'[x] = IF x = old THEN "absent"
                     ELSE IF x = new THEN status[old] ELSE status[x]
  BY <1>1, <1>2 DEF Rotate
<1>5. FreshIsIdle'
  BY <1>3, <1>4 DEF Rotate, SlotInvariant, FreshIsIdle
<1>6. SlotBound'
  BY <1>3, <1>1 DEF SlotInvariant, SlotBound
<1>7. NoStrandedSlot'
  BY <1>1, <1>3, <1>4 DEF Rotate, Live, SlotInvariant, NoStrandedSlot
<1> QED
  BY <1>5, <1>6, <1>7 DEF SlotInvariant

LEMMA EnvironmentKeepsSlots ==
  ASSUME SlotInvariant, TypeInvariant', Environment
  PROVE  SlotInvariant'
<1> USE DEF accountVars, slotVars
<1>1. ASSUME NEW t \in Token, NEW u \in Token, Rotate(t, u)
      PROVE  SlotInvariant'
  BY <1>1, RotateKeepsSlots
<1>2. ASSUME NEW t \in Token, Delete(t)
      PROVE  SlotInvariant'
  BY <1>2, ForgetKeepsSlots DEF Delete
<1>3. ASSUME NEW t \in Token, Import(t)
      PROVE  SlotInvariant'
  <2>1. /\ status' = [status EXCEPT ![t] = "normal"] /\ t \in issued
        /\ UNCHANGED <<inflight, issued>>
    BY <1>3 DEF Import
  <2>2. status \in [Token -> Statuses]
    BY DEF SlotInvariant, TypeInvariant, TypeOK, Statuses
  <2>3. FreshIsIdle'
    BY <2>1, <2>2 DEF SlotInvariant, FreshIsIdle
  <2>4. SlotBound'
    BY <2>1 DEF SlotInvariant, SlotBound
  <2>5. NoStrandedSlot'
    BY <2>1, <2>2 DEF SlotInvariant, NoStrandedSlot, Live
  <2> QED
    BY <2>3, <2>4, <2>5 DEF SlotInvariant
<1>4. ASSUME NEW t \in Token, BreakerOpens(t) \/ BreakerCools(t)
      PROVE  SlotInvariant'
  BY <1>4, QuietStatus DEF BreakerOpens, BreakerCools, Live
<1> QED
  BY <1>1, <1>2, <1>3, <1>4 DEF Environment

LEMMA InitSlots == Init => SlotInvariant
<1> SUFFICES ASSUME Init PROVE SlotInvariant
  OBVIOUS
<1>1. TypeInvariant
  BY InitTyped
<1>2. FreshIsIdle /\ SlotBound /\ NoStrandedSlot
  BY DEF Init, FreshIsIdle, SlotBound, NoStrandedSlot
<1> QED
  BY <1>1, <1>2 DEF SlotInvariant

LEMMA NextSlots == SlotInvariant /\ [Next]_vars => SlotInvariant'
<1> SUFFICES ASSUME SlotInvariant, [Next]_vars PROVE SlotInvariant'
  OBVIOUS
<1>1. TypeInvariant'
  BY NextTyped DEF SlotInvariant
<1>2. CASE UNCHANGED vars
  BY <1>1, <1>2, QuietStatus DEF vars, accountVars, slotVars, Live
<1>3. CASE Next
  BY <1>1, <1>3, StepKeepsSlots, EnvironmentKeepsSlots DEF Next
<1> QED
  BY <1>2, <1>3

(* No account is booked beyond image_account_concurrency, whatever tokens  *)
(* are rotated, deleted and imported again under the requests that run.    *)
THEOREM SlotsBounded == Spec => []SlotBound
<1>1. SlotInvariant => SlotBound
  BY DEF SlotInvariant
<1> QED
  BY InitSlots, NextSlots, <1>1, PTL DEF Spec

(* No slot stays behind with a token that left the pool, unless rate       *)
(* limited accounts are removed.                                           *)
THEOREM SlotsNotStranded == Spec => []NoStrandedSlot
<1>1. SlotInvariant => NoStrandedSlot
  BY DEF SlotInvariant
<1> QED
  BY InitSlots, NextSlots, <1>1, PTL DEF Spec

-----------------------------------------------------------------------------
(* Chains of aliases.  Ends(h, t, u) says that who starts at t and follows *)
(* h arrives at u and stays there, as Resolves says it of Hop.             *)
Closed(h, S) == \A x \in S : h[x] \in S

Ends(h, t, u) ==
  /\ h[u] = u
  /\ \A S \in SUBSET Token : t \in S /\ Closed(h, S) => u \in S

(* A chain has one end. *)
LEMMA EndIsUnique ==
  ASSUME NEW h \in [Token -> Token], NEW t \in Token,
         NEW u \in Token, NEW v \in Token, Ends(h, t, u), Ends(h, t, v)
  PROVE  u = v
<1> DEFINE R == {x \in Token : \A S \in SUBSET Token : x \in S /\ Closed(h, S) => u \in S}
<1>1. t \in R
  BY DEF Ends
<1>2. Closed(h, R)
  <2> SUFFICES ASSUME NEW x \in R PROVE h[x] \in R
    BY DEF Closed
  <2> SUFFICES ASSUME NEW S \in SUBSET Token, h[x] \in S, Closed(h, S) PROVE u \in S
    OBVIOUS
  <2>1. Closed(h, S \cup {x}) /\ S \cup {x} \in SUBSET Token
    BY DEF Closed
  <2>2. u \in S \cup {x}
    BY <2>1
  <2>3. h[u] = u
    BY DEF Ends
  <2> QED
    BY <2>2, <2>3
<1>3. v \in R
  BY <1>1, <1>2 DEF Ends
<1>4. Closed(h, {v})
  BY DEF Ends, Closed
<1> QED
  BY <1>3, <1>4

(* A token that goes nowhere is the end of its own chain. *)
LEMMA EndOfItself ==
  ASSUME NEW h \in [Token -> Token], NEW t \in Token, h[t] = t
  PROVE  Ends(h, t, t)
BY DEF Ends

(* Sending the end of some chains on to a token nobody was sent to. *)
LEMMA EndMovesOn ==
  ASSUME NEW h \in [Token -> Token], NEW old \in Token, NEW new \in Token,
         h[old] = old, h[new] = new, old # new,
         NEW g \in [Token -> Token], \A x \in Token : g[x] = IF x = old THEN new ELSE h[x],
         NEW t \in Token, NEW u \in Token, Ends(h, t, u)
  PROVE  Ends(g, t, IF u = old THEN new ELSE u)
<1>1. ASSUME NEW S \in SUBSET Token, t \in S, Closed(g, S)
      PROVE  u \in S
  <2>1. Closed(h, S)
    BY <1>1 DEF Closed
  <2> QED
    BY <1>1, <2>1 DEF Ends
<1>2. CASE u = old
  <2>1. g[old] = new /\ g[new] = new
    OBVIOUS
  <2>2. ASSUME NEW S \in SUBSET Token, t \in S, Closed(g, S)
        PROVE  new \in S
    BY <1>1, <1>2, <2>1, <2>2 DEF Closed
  <2> QED
    BY <1>2, <2>1, <2>2 DEF Ends
<1>3. CASE u # old
  BY <1>1, <1>3 DEF Ends
<1> QED
  BY <1>2, <1>3

(* Cutting the hops to a token: chains that ended there end one hop early, *)
(* the others where they did.                                              *)
LEMMA EndIsCutOff ==
  ASSUME NEW h \in [Token -> Token], NEW g \in [Token -> Token], NEW d \in Token,
         h[d] = d, \A x \in Token : g[x] = IF h[x] = d THEN x ELSE h[x],
         NEW t \in Token, NEW u \in Token, Ends(h, t, u)
  PROVE  \E v \in Token : Ends(g, t, v) /\ (IF u = d THEN h[v] = d ELSE v = u)
<1>1. CASE u # d
  <2>1. g[u] = u
    BY <1>1 DEF Ends
  <2>2. ASSUME NEW S \in SUBSET Token, t \in S, Closed(g, S)
        PROVE  u \in S
    <3>1. Closed(h, S \cup {d}) /\ S \cup {d} \in SUBSET Token
      BY <2>2 DEF Closed
    <3>2. u \in S \cup {d}
      BY <2>2, <3>1 DEF Ends
    <3> QED
      BY <1>1, <3>2
  <2>3. Ends(g, t, u)
    BY <2>1, <2>2 DEF Ends
  <2> QED
    BY <1>1, <2>3
<1>2. CASE u = d
  <2> DEFINE R == {x \in Token : \A S \in SUBSET Token : t \in S /\ Closed(g, S) => x \in S}
  <2>1. t \in R /\ Closed(g, R)
    BY DEF Closed
  <2>2. ASSUME NEW v \in R, h[v] = d
        PROVE  Ends(g, t, v)
    BY <2>2 DEF Ends
  <2>3. ASSUME \A v \in R : h[v] # d
        PROVE  FALSE
    <3>1. Closed(h, R)
      BY <2>1, <2>3 DEF Closed
    <3>2. d \in R
      <4> HIDE DEF R
      <4>1. R \in SUBSET Token
        BY DEF R
      <4> QED
        BY <1>2, <2>1, <3>1, <4>1 DEF Ends
    <3> QED
      BY <2>3, <3>2
  <2> QED
    BY <1>2, <2>2, <2>3
<1> QED
  BY <1>1, <1>2

-----------------------------------------------------------------------------
(* What tokens resolve to.                                                 *)
Hops == [x \in Token |-> Hop(x)]

(* Every chain of aliases has an end. *)
Resolved == \A t \in Token : \E u \in Token : Ends(Hops, t, u)

(* An alias is left by a token that went, and leads to an issued one; a    *)
(* token not issued yet is in nobody's chain.                              *)
AliasesAreGone ==
  \A t \in Token : alias[t] # NoToken =>
    status[t] = "absent" /\ t \in issued /\ alias[t] \in issued

LEMMA HopsTyped ==
  /\ TypeOK => Hops \in [Token -> Token]
  /\ TypeOK' => Hops' \in [Token -> Token]
<1>1. TypeOK => Hops \in [Token -> Token]
  BY DEF Hops, Hop, TypeOK
<1>2. TypeOK' => Hops' \in [Token -> Token]
  BY DEF Hops, Hop, TypeOK
<1> QED
  BY <1>1, <1>2

(* Resolve finds the end of the chain, before a step and after it. *)
LEMMA ResolveIs ==
  ASSUME TypeOK, NEW t \in Token, NEW u \in Token, Ends(Hops, t, u)
  PROVE  Resolve(t) = u
<1>1. \A v \in Token : Resolves(t, v) <=> Ends(Hops, t, v)
  <2> SUFFICES ASSUME NEW v \in Token PROVE Resolves(t, v) <=> Ends(Hops, t, v)
    OBVIOUS
  <2>1. Hops[v] = Hop(v)
    BY DEF Hops
  <2>2. \A S \in SUBSET Token : Closed(Hops, S) <=> \A x \in S : Hop(x) \in S
    BY DEF Hops, Closed
  <2> QED
    BY <2>1, <2>2 DEF Resolves, Ends
<1>2. Resolve(t) \in Token /\ Resolves(t, Resolve(t))
  BY <1>1 DEF Resolve
<1> QED
  BY <1>1, <1>2, EndIsUnique, HopsTyped

LEMMA ResolveIsNext ==
  ASSUME TypeOK', NEW t \in Token, NEW u \in Token, Ends(Hops', t, u)
  PROVE  Resolve(t)' = u
<1>1. \A v \in Token : Resolves(t, v)' <=> Ends(Hops', t, v)
  <2> SUFFICES ASSUME NEW v \in Token PROVE Resolves(t, v)' <=> Ends(Hops', t, v)
    OBVIOUS
  <2>1. Hops'[v] = Hop(v)'
    BY DEF Hops
  <2>2. \A S \in SUBSET Token : Closed(Hops', S) <=> \A x \in S : Hop(x)' \in S
    BY DEF Hops, Closed
  <2> QED
    BY <2>1, <2>2 DEF Resolves, Ends
<1>2. Resolve(t)' \in Token /\ Resolves(t, Resolve(t))'
  BY <1>1 DEF Resolve
<1> QED
  BY <1>1, <1>2, EndIsUnique, HopsTyped

LEMMA ResolveEnds ==
  ASSUME TypeOK, Resolved, NEW t \in Token
  PROVE  Resolve(t) \in Token /\ Ends(Hops, t, Resolve(t))
BY ResolveIs DEF Resolved

(* A token of the pool resolves to itself. *)
LEMMA LiveResolves ==
  ASSUME TypeOK, NEW t \in Token, Live(t)
  PROVE  Resolve(t) = t
<1>1. Hops[t] = t
  BY DEF Hops, Hop, Live
<1> QED
  BY <1>1, EndOfItself, HopsTyped, ResolveIs

(* An issued token resolves to an issued one. *)
LEMMA IssuedResolves ==
  ASSUME TypeOK, Resolved, AliasesAreGone, NEW t \in issued
  PROVE  Resolve(t) \in issued
<1>1. Closed(Hops, issued) /\ issued \in SUBSET Token
  BY DEF Closed, Hops, Hop, AliasesAreGone, TypeOK
<1>2. Ends(Hops, t, Resolve(t))
  BY <1>1, ResolveEnds
<1> QED
  BY <1>1, <1>2 DEF Ends

(* Where no chain changes, tokens resolve as before. *)
LEMMA SameHops ==
  ASSUME TypeOK, TypeOK', Resolved, Hops' = Hops
  PROVE  Resolved' /\ \A t \in Token : Resolve(t)' = Resolve(t)
<1> SUFFICES ASSUME NEW t \in Token
             PROVE  /\ \E u \in Token : Ends(Hops', t, u)
                    /\ Resolve(t)' = Resolve(t)
  BY DEF Resolved
<1>1. Resolve(t) \in Token /\ Ends(Hops', t, Resolve(t))
  BY ResolveEnds
<1> QED
  BY <1>1, ResolveIsNext

(* A rotation sends those who resolve to the old token to the new one. *)
LEMMA RotatedHops ==
  ASSUME TypeOK, TypeOK', Resolved, NEW old \in Token, NEW new \in Token, old # new,
         Hop(old) = old, Hop(new) = new,
         \A x \in Token : Hops'[x] = IF x = old THEN new ELSE Hops[x]
  PROVE  /\ Resolved'
         /\ \A t \in Token : Resolve(t)' = IF Resolve(t) = old THEN new ELSE Resolve(t)
<1> SUFFICES ASSUME NEW t \in Token
             PROVE  /\ \E u \in Token : Ends(Hops', t, u)
                    /\ Resolve(t)' = IF Resolve(t) = old THEN new ELSE Resolve(t)
  BY DEF Resolved
<1>1. PICK u \in Token : u = Resolve(t) /\ Ends(Hops, t, u)
  BY ResolveEnds
<1>2. Hops[old] = old /\ Hops[new] = new
  BY DEF Hops
<1>3. Hops \in [Token -> Token] /\ Hops' \in [Token -> Token]
  BY HopsTyped
<1>4. PICK v \in Token : v = (IF u = old THEN new ELSE u) /\ Ends(Hops', t, v)
  BY <1>1, <1>2, <1>3, EndMovesOn
<1> QED
  BY <1>1, <1>4, ResolveIsNext

(* Forgetting a token leaves those who resolved to it short of it. *)
LEMMA CutHops ==
  ASSUME TypeOK, TypeOK', Resolved, NEW d \in Token, Hop(d) = d,
         \A x \in Token : Hops'[x] = IF Hops[x] = d THEN x ELSE Hops[x]
  PROVE  /\ Resolved'
         /\ \A t \in Token : IF Resolve(t) = d THEN Hop(Resolve(t)') = d
                                               ELSE Resolve(t)' = Resolve(t)
<1> SUFFICES ASSUME NEW t \in Token
             PROVE  /\ \E u \in Token : Ends(Hops', t, u)
                    /\ IF Resolve(t) = d THEN Hop(Resolve(t)') = d
                                         ELSE Resolve(t)' = Resolve(t)
  BY DEF Resolved
<1>1. PICK u \in Token : u = Resolve(t) /\ Ends(Hops, t, u)
  BY ResolveEnds
<1>2. Hops[d] = d /\ \A x \in Token : Hops[x] = Hop(x)
  BY DEF Hops
<1>3. PICK v \in Token : Ends(Hops', t, v) /\ (IF u = d THEN Hops[v] = d ELSE v = u)
  BY <1>1, <1>2, HopsTyped, EndIsCutOff
<1>4. Resolve(t)' = v
  BY <1>3, ResolveIsNext
<1> QED
  BY <1>1, <1>2, <1>3, <1>4

-----------------------------------------------------------------------------
(* The counting of slots.  A request may have gone on to another token of  *)
(* its account than the one it took its slot with; as long as the account  *)
(* is in the pool, both find it.                                           *)
SameAccount ==
  \A r \in Request : pc[r] \in Holding =>
    /\ orig[r] \in issued /\ tok[r] \in issued
    /\ \A t \in Token : Live(t) => (Resolve(orig[r]) = t <=> Resolve(tok[r]) = t)

NoProgressOnly == \A r \in Request : out[r] # "progress"

ChainInvariant == Resolved /\ AliasesAreGone

CountInvariant ==
  /\ SlotInvariant
  /\ ChainInvariant
  /\ NoProgressOnly
  /\ SameAccount
  /\ SlotsCounted

(* No step of the accounts but a rotation brings a token into the pool, or *)
(* has a request find another account.                                     *)
Calm ==
  /\ ChainInvariant'
  /\ issued' = issued
  /\ \A t \in Token : Live(t)' =>
       /\ Live(t)
       /\ \A x \in Token : Resolve(x)' = t <=> Resolve(x) = t

LEMMA CalmIfNoneEnters ==
  ASSUME TypeOK, TypeOK', ChainInvariant, alias' = alias, issued' = issued,
         \A t \in Token : Live(t)' => Live(t)
  PROVE  Calm
<1>1. \A x \in Token : Hop(x)' = Hop(x)
  BY DEF Hop, Live, ChainInvariant, AliasesAreGone, TypeOK
<1>2. Hops' = Hops
  BY <1>1 DEF Hops
<1>3. Resolved' /\ \A t \in Token : Resolve(t)' = Resolve(t)
  BY <1>2, SameHops DEF ChainInvariant
<1>4. AliasesAreGone'
  BY DEF Live, ChainInvariant, AliasesAreGone
<1> QED
  BY <1>3, <1>4 DEF Calm, ChainInvariant

LEMMA CalmIfForgotten ==
  ASSUME TypeOK, TypeOK', ChainInvariant, NEW d \in Token, Live(d), Forget(d), issued' = issued
  PROVE  Calm
<1>1. /\ status' = [status EXCEPT ![d] = "absent"]
      /\ \A x \in Token : alias'[x] = IF d = x \/ d = alias[x] THEN NoToken ELSE alias[x]
  BY DEF Forget
<1>2. \A x \in Token : Live(x)' <=> Live(x) /\ x # d
  BY <1>1 DEF Live, TypeOK
<1>3. \A x \in Token : alias[x] # NoToken => status[x] = "absent"
  BY DEF ChainInvariant, AliasesAreGone
<1>4. Hop(d) = d /\ alias[d] = NoToken
  BY <1>3 DEF Hop, Live
<1>5. \A x \in Token : Hop(x)' = IF Hop(x) = d THEN x ELSE Hop(x)
  <2> SUFFICES ASSUME NEW x \in Token PROVE Hop(x)' = IF Hop(x) = d THEN x ELSE Hop(x)
    OBVIOUS
  <2>1. CASE x = d
    BY <1>1, <1>4, <2>1 DEF Hop
  <2>2. CASE x # d /\ alias[x] = NoToken
    BY <1>1, <2>2 DEF Hop
  <2>3. CASE x # d /\ alias[x] # NoToken
    BY <1>1, <1>3, <2>3 DEF Hop, TypeOK
  <2> QED
    BY <2>1, <2>2, <2>3
<1>6. \A x \in Token : Hops'[x] = IF Hops[x] = d THEN x ELSE Hops[x]
  BY <1>5 DEF Hops
<1>7. /\ Resolved'
      /\ \A x \in Token : IF Resolve(x) = d THEN Hop(Resolve(x)') = d
                                            ELSE Resolve(x)' = Resolve(x)
  BY <1>4, <1>6, CutHops DEF ChainInvariant
<1>8. AliasesAreGone'
  <2>1. \A x \in Token : alias'[x] # NoToken => alias'[x] = alias[x] /\ x # d
    BY <1>1
  <2> QED
    BY <1>1, <2>1 DEF ChainInvariant, AliasesAreGone, TypeOK
<1>9. ASSUME NEW t \in Token, Live(t)', NEW x \in Token
      PROVE  Resolve(x)' = t <=> Resolve(x) = t
  <2>1. t # d /\ Hop(t) # d
    BY <1>2, <1>9 DEF Hop, Live
  <2> QED
    BY <1>7, <2>1
<1> QED
  BY <1>2, <1>7, <1>8, <1>9 DEF Calm, ChainInvariant

LEMMA CalmIfStored ==
  ASSUME TypeOK, TypeOK', ChainInvariant, NEW t, NEW st, NEW q,
         Live(t), Store(t, st, q), UNCHANGED <<alias, issued>>
  PROVE  Calm
<1>1. \A x \in Token : Live(x)' => Live(x)
  BY DEF Live, Store, TypeOK
<1> QED
  BY <1>1, CalmIfNoneEnters

LEMMA CalmIfRemoved ==
  ASSUME TypeOK, TypeOK', ChainInvariant, NEW t, RemoveInvalid(t)
  PROVE  Calm /\ \A x \in Token : Live(x)' => inflight'[x] = inflight[x]
<1>1. t \in Token /\ Live(t)
  BY DEF RemoveInvalid, Live
<1>2. CASE Forget(t) /\ UNCHANGED <<issued, node>>
  <2>1. \A x \in Token : Live(x)' => x # t
    BY <1>1, <1>2 DEF Forget, Live, TypeOK
  <2>2. \A x \in Token : x # t => inflight'[x] = inflight[x]
    BY <1>2 DEF Forget, TypeOK
  <2> QED
    BY <1>1, <1>2, <2>1, <2>2, CalmIfForgotten
<1>3. CASE Store(t, "abnormal", 0) /\ UNCHANGED <<alias, issued, slotVars>>
  BY <1>1, <1>3, CalmIfStored DEF slotVars
<1> QED
  BY <1>2, <1>3 DEF RemoveInvalid

(* Requests that go on, or give up, without touching the slots. *)
LEMMA CalmKeepsCount ==
  ASSUME CountInvariant, IsFiniteSet(Request), SlotInvariant', NoProgressOnly', Calm,
         \A t \in Token : Live(t)' => inflight'[t] = inflight[t],
         \A r \in Request : pc'[r] \in Holding =>
           /\ pc[r] \in Holding
           /\ orig'[r] = orig[r]
           /\ tok'[r] = tok[r] \/ tok'[r] = Resolve(orig[r])
  PROVE  CountInvariant'
<1>0. TypeOK /\ TypeOK' /\ Resolved /\ AliasesAreGone
  BY DEF CountInvariant, SlotInvariant, TypeInvariant, ChainInvariant
<1>1. ASSUME NEW r \in Request, pc'[r] \in Holding
      PROVE  /\ orig'[r] \in issued /\ tok'[r] \in issued
             /\ tok'[r] = tok[r] \/ Resolve(tok'[r]) = Resolve(orig[r])
  <2>1. orig[r] \in issued /\ tok[r] \in issued /\ issued \subseteq Token
    BY <1>0, <1>1 DEF CountInvariant, SameAccount, TypeOK
  <2>2. PICK u \in issued : u = Resolve(orig[r])
    BY <1>0, <2>1, IssuedResolves
  <2>3. Resolve(u) = u
    <3>1. Ends(Hops, orig[r], u)
      BY <1>0, <2>1, <2>2, ResolveEnds
    <3>2. Ends(Hops, u, u)
      BY <1>0, <2>1, <3>1, HopsTyped, EndOfItself DEF Ends
    <3> QED
      BY <1>0, <2>1, <3>2, ResolveIs
  <2> QED
    BY <1>1, <2>1, <2>2, <2>3
<1>2. ASSUME NEW r \in Request, pc'[r] \in Holding, NEW t \in Token, Live(t)'
      PROVE  /\ (Resolve(tok[r])' = t <=> Resolve(tok[r]) = t)
             /\ (Resolve(orig[r])' = t <=> Resolve(tok[r]) = t)
  <2>1. Live(t) /\ issued \subseteq Token
    BY <1>0, <1>2 DEF Calm, TypeOK
  <2>2. Resolve(orig[r]) = t <=> Resolve(tok[r]) = t
    BY <1>2, <2>1 DEF CountInvariant, SameAccount
  <2>3. PICK x \in issued, y \in issued : x = orig'[r] /\ y = tok'[r]
    BY <1>1, <1>2
  <2>4. (Resolve(x)' = t <=> Resolve(x) = t) /\ (Resolve(y)' = t <=> Resolve(y) = t)
    BY <1>2, <2>1 DEF Calm
  <2>5. x = orig[r] /\ (y = tok[r] \/ Resolve(y) = Resolve(orig[r]))
    BY <1>1, <1>2, <2>3
  <2>6. Resolve(orig[r])' = Resolve(x)' /\ Resolve(tok[r])' = Resolve(y)'
    BY <2>3
  <2> QED
    BY <2>2, <2>4, <2>5, <2>6
<1>3. SameAccount'
  BY <1>1, <1>2 DEF SameAccount, Calm
<1>4. SlotsCounted'
  <2> SUFFICES ASSUME NEW t \in Token, Live(t)'
               PROVE  Cardinality(Holders(t)') <= inflight'[t]
    BY DEF SlotsCounted
  <2>1. Holders(t)' \subseteq Holders(t)
    BY <1>2 DEF Holders
  <2>2. IsFiniteSet(Holders(t))
    BY FS_Subset DEF Holders
  <2>3. /\ Cardinality(Holders(t)') <= Cardinality(Holders(t))
        /\ Cardinality(Holders(t)) \in Nat /\ Cardinality(Holders(t)') \in Nat
    BY <2>1, <2>2, FS_Subset, FS_CardinalityType
  <2>4. Cardinality(Holders(t)) <= inflight[t] /\ inflight[t] \in Nat
    BY <1>0 DEF Calm, CountInvariant, SlotsCounted, TypeOK
  <2> QED
    BY <2>3, <2>4
<1> QED
  BY <1>3, <1>4 DEF CountInvariant, Calm

(* Where the pool is as it was, tokens resolve as they did. *)
LEMMA SamePool ==
  ASSUME TypeOK, TypeOK', ChainInvariant, UNCHANGED <<status, alias, issued>>
  PROVE  /\ ChainInvariant'
         /\ \A x \in Token : Resolve(x)' = Resolve(x) /\ (Live(x)' <=> Live(x))
<1>1. Hops' = Hops
  BY DEF Hops, Hop
<1>2. Resolved' /\ \A x \in Token : Resolve(x)' = Resolve(x)
  BY <1>1, SameHops DEF ChainInvariant
<1> QED
  BY <1>2 DEF Live, ChainInvariant, AliasesAreGone

LEMMA HoldersFinite ==
  ASSUME IsFiniteSet(Request), NEW t
  PROVE  /\ IsFiniteSet(Holders(t)) /\ Cardinality(Holders(t)) \in Nat
         /\ \A S \in SUBSET Holders(t) : Cardinality(S) \in Nat /\ Cardinality(S) <= Cardinality(Holders(t))
<1>1. IsFiniteSet(Holders(t))
  BY FS_Subset DEF Holders
<1>2. \A S \in SUBSET Holders(t) : IsFiniteSet(S) /\ Cardinality(S) <= Cardinality(Holders(t))
  BY <1>1, FS_Subset
<1> QED
  BY <1>1, <1>2, FS_CardinalityType

(* A slot that is taken is counted. *)
LEMMA AcquireCounts ==
  ASSUME CountInvariant, IsFiniteSet(Request), SlotInvariant', NEW r \in Request, Acquire(r)
  PROVE  CountInvariant'
<1>0. TypeOK /\ TypeOK' /\ Resolved /\ AliasesAreGone /\ FreshIsIdle
  BY DEF CountInvariant, SlotInvariant, TypeInvariant, ChainInvariant
<1>1. PICK t \in Token :
        /\ status[t] = "normal"
        /\ inflight' = [inflight EXCEPT ![t] = @ + 1]
        /\ orig' = [orig EXCEPT ![r] = t]
        /\ tok' = [tok EXCEPT ![r] = t]
  BY DEF Acquire, Free, Ready, Available
<1>2. UNCHANGED <<status, alias, issued, out>>
  BY DEF Acquire, accountVars
<1>3. ChainInvariant' /\ \A x \in Token : Resolve(x)' = Resolve(x) /\ (Live(x)' <=> Live(x))
  BY <1>0, <1>2, SamePool DEF ChainInvariant
<1>4. Live(t) /\ t \in issued /\ Resolve(t) = t
  BY <1>0, <1>1, LiveResolves DEF Live, FreshIsIdle
<1>5. orig'[r] = t /\ tok'[r] = t
  BY <1>0, <1>1 DEF TypeOK
<1>6. \A q \in Request \ {r} : pc'[q] = pc[q] /\ orig'[q] = orig[q] /\ tok'[q] = tok[q]
  BY <1>0, <1>1 DEF Acquire, Goto, TypeOK
<1>7. SameAccount'
  <2> SUFFICES ASSUME NEW q \in Request, pc'[q] \in Holding
               PROVE  /\ orig'[q] \in issued /\ tok'[q] \in issued
                      /\ \A u \in Token : Live(u)' => (Resolve(orig[q])' = u <=> Resolve(tok[q])' = u)
    BY <1>2 DEF SameAccount
  <2>1. CASE q = r
    BY <1>4, <1>5, <2>1
  <2>2. CASE q # r
    <3>1. pc[q] \in Holding /\ orig[q] \in issued /\ tok[q] \in issued /\ issued \subseteq Token
      BY <1>0, <1>6, <2>2 DEF CountInvariant, SameAccount, TypeOK
    <3>2. PICK x \in Token, y \in Token : x = orig[q] /\ y = tok[q]
      BY <3>1
    <3>3. x = orig'[q] /\ y = tok'[q]
      BY <1>6, <2>2, <3>2
    <3>4. Resolve(orig[q])' = Resolve(x)' /\ Resolve(tok[q])' = Resolve(y)'
      BY <3>3
    <3> QED
      BY <1>3, <1>6, <2>2, <3>1, <3>2, <3>4 DEF CountInvariant, SameAccount
  <2> QED
    BY <2>1, <2>2
<1>8. SlotsCounted'
  <2> SUFFICES ASSUME NEW u \in Token, Live(u)'
               PROVE  Cardinality(Holders(u)') <= inflight'[u]
    BY DEF SlotsCounted
  <2>1. Cardinality(Holders(u)) <= inflight[u] /\ inflight[u] \in Nat
    BY <1>0, <1>3 DEF CountInvariant, SlotsCounted, TypeOK
  <2>2. ASSUME NEW q \in Holders(u)', q # r
        PROVE  q \in Holders(u)
    <3>1. q \in Request /\ pc'[q] \in Holding /\ Resolve(tok[q])' = u
      BY <2>2 DEF Holders
    <3>2. pc[q] \in Holding /\ tok[q] \in Token /\ tok'[q] = tok[q]
      BY <1>0, <1>6, <2>2, <3>1 DEF CountInvariant, SameAccount, TypeOK
    <3>3. PICK y \in Token : y = tok[q]
      BY <3>2
    <3>4. Resolve(tok[q])' = Resolve(y)'
      BY <3>2, <3>3
    <3> QED
      BY <1>3, <3>1, <3>2, <3>3, <3>4 DEF Holders
  <2>3. CASE u = t
    <3>1. Holders(u)' \subseteq Holders(u) \cup {r}
      BY <2>2
    <3>2. /\ IsFiniteSet(Holders(u) \cup {r})
          /\ Cardinality(Holders(u) \cup {r}) <= Cardinality(Holders(u)) + 1
          /\ Cardinality(Holders(u)) \in Nat
      <4>1. IsFiniteSet(Holders(u)) /\ Cardinality(Holders(u)) \in Nat
        BY HoldersFinite
      <4>2. /\ IsFiniteSet(Holders(u) \cup {r})
            /\ Cardinality(Holders(u) \cup {r})
                 = IF r \in Holders(u) THEN Cardinality(Holders(u)) ELSE Cardinality(Holders(u)) + 1
        BY <4>1, FS_AddElement
      <4> QED
        BY <4>1, <4>2
    <3>3. Cardinality(Holders(u)') <= Cardinality(Holders(u) \cup {r})
      BY <3>1, <3>2, FS_Subset
    <3>4. Cardinality(Holders(u) \cup {r}) \in Nat /\ Cardinality(Holders(u)') \in Nat
      BY <3>1, <3>2, FS_Subset, FS_CardinalityType
    <3>5. inflight'[u] = inflight[u] + 1
      BY <1>0, <1>1, <2>3 DEF TypeOK
    <3> QED
      BY <2>1, <3>2, <3>3, <3>4, <3>5
  <2>4. CASE u # t
    <3>1. r \notin Holders(u)'
      <4>1. Resolve(tok[r])' = Resolve(t)'
        BY <1>5
      <4> QED
        BY <1>3, <1>4, <2>4, <4>1 DEF Holders
    <3>2. Holders(u)' \in SUBSET Holders(u)
      BY <2>2, <3>1
    <3>3. /\ Cardinality(Holders(u)') <= Cardinality(Holders(u))
          /\ Cardinality(Holders(u)) \in Nat /\ Cardinality(Holders(u)') \in Nat
      BY <3>2, HoldersFinite
    <3>4. inflight'[u] = inflight[u]
      BY <1>0, <1>1, <2>4 DEF TypeOK
    <3> QED
      BY <2>1, <3>3, <3>4
  <2> QED
    BY <2>3, <2>4
<1>9. NoProgressOnly'
  BY <1>2 DEF CountInvariant, NoProgressOnly
<1> QED
  BY <1>3, <1>7, <1>8, <1>9 DEF CountInvariant

(* A slot is given back by the request that has it, to the account it is   *)
(* counted for, under whichever of its tokens the request names it.        *)
LEMMA ReleaseCounts ==
  ASSUME CountInvariant, IsFiniteSet(Request), SlotInvariant',
         NEW r \in Request, NEW x, pc[r] \in Holding,
         x \in {orig[r], tok[r]}, ReleaseSlot(x),
         pc'[r] \notin Holding, \A q \in Request \ {r} : pc'[q] = pc[q],
         UNCHANGED <<status, alias, issued, orig, tok, out>>
  PROVE  CountInvariant'
<1>0. TypeOK /\ TypeOK' /\ Resolved /\ AliasesAreGone
  BY DEF CountInvariant, SlotInvariant, TypeInvariant, ChainInvariant
<1>1. ChainInvariant' /\ \A y \in Token : Resolve(y)' = Resolve(y) /\ (Live(y)' <=> Live(y))
  BY <1>0, SamePool DEF ChainInvariant
<1>2. ASSUME NEW q \in Request, pc[q] \in Holding
      PROVE  Resolve(orig[q])' = Resolve(orig[q]) /\ Resolve(tok[q])' = Resolve(tok[q])
  <2>1. PICK y \in Token, z \in Token : y = orig[q] /\ z = tok[q]
    BY <1>0, <1>2 DEF CountInvariant, SameAccount, TypeOK
  <2>2. Resolve(orig[q])' = Resolve(y)' /\ Resolve(tok[q])' = Resolve(z)'
    BY <2>1
  <2> QED
    BY <1>1, <2>1, <2>2
<1>3. \A q \in Request : pc'[q] \in Holding => q # r /\ pc[q] \in Holding
  OBVIOUS
<1>4. SameAccount'
  BY <1>1, <1>2, <1>3 DEF CountInvariant, SameAccount
<1>5. SlotsCounted'
  <2> SUFFICES ASSUME NEW u \in Token, Live(u)'
               PROVE  Cardinality(Holders(u)') <= inflight'[u]
    BY DEF SlotsCounted
  <2>1. Live(u) /\ Cardinality(Holders(u)) <= inflight[u] /\ inflight[u] \in Nat
    BY <1>0, <1>1 DEF CountInvariant, SlotsCounted, TypeOK
  <2>2. Holders(u)' \subseteq Holders(u) \ {r}
    BY <1>2, <1>3 DEF Holders
  <2>3. /\ IsFiniteSet(Holders(u) \ {r}) /\ Cardinality(Holders(u)) \in Nat
        /\ Cardinality(Holders(u) \ {r}) =
             IF r \in Holders(u) THEN Cardinality(Holders(u)) - 1 ELSE Cardinality(Holders(u))
    BY HoldersFinite, FS_RemoveElement
  <2>4. /\ Cardinality(Holders(u)') <= Cardinality(Holders(u) \ {r})
        /\ Cardinality(Holders(u)') \in Nat
    BY <2>2, <2>3, FS_Subset, FS_CardinalityType
  <2>5. CASE Resolve(x) = u
    <3>1. r \in Holders(u)
      BY <2>1, <2>5 DEF CountInvariant, SameAccount, Holders
    <3>2. inflight'[u] = Decrement(inflight[u])
      BY <1>0, <2>5 DEF ReleaseSlot, TypeOK
    <3>3. Decrement(inflight[u]) >= inflight[u] - 1 /\ Decrement(inflight[u]) \in Nat
      BY <2>1 DEF Decrement
    <3> QED
      BY <2>1, <2>3, <2>4, <3>1, <3>2, <3>3
  <2>6. CASE Resolve(x) # u
    <3>1. inflight'[u] = inflight[u]
      BY <1>0, <2>6 DEF ReleaseSlot, TypeOK
    <3> QED
      BY <2>1, <2>3, <2>4, <3>1
  <2> QED
    BY <2>5, <2>6
<1>6. NoProgressOnly'
  BY DEF CountInvariant, NoProgressOnly
<1> QED
  BY <1>1, <1>4, <1>5, <1>6 DEF CountInvariant

(* A rotation takes the slots along, and the requests that have them.      *)
LEMMA RotateCounts ==
  ASSUME CountInvariant, IsFiniteSet(Request), SlotInvariant',
         NEW old \in Token, NEW new \in Token, Rotate(old, new)
  PROVE  CountInvariant'
<1>0. TypeOK /\ TypeOK' /\ Resolved /\ AliasesAreGone /\ FreshIsIdle
  BY DEF CountInvariant, SlotInvariant, TypeInvariant, ChainInvariant
<1>1. /\ Live(old) /\ new \notin issued /\ issued' = issued \cup {new}
      /\ status' = [status EXCEPT ![old] = "absent", ![new] = status[old]]
      /\ alias' = [alias EXCEPT ![old] = new]
      /\ inflight' = [inflight EXCEPT ![old] = 0, ![new] = @ + inflight[old]]
      /\ UNCHANGED <<pc, orig, tok, out>>
  BY DEF Rotate, SlotsMoved, requestVars
<1>2. old \in issued /\ old # new /\ status[new] = "absent"
  BY <1>0, <1>1 DEF FreshIsIdle, Live
<1>3. alias[old] = NoToken /\ alias[new] = NoToken
  BY <1>0, <1>1 DEF AliasesAreGone, Live
<1>4. \A x \in Token : status'[x] = IF x = old THEN "absent"
                                    ELSE IF x = new THEN status[old] ELSE status[x]
  BY <1>0, <1>1, <1>2 DEF TypeOK
<1>5. \A x \in Token : alias'[x] = IF x = old THEN new ELSE alias[x]
  BY <1>0, <1>1 DEF TypeOK
<1>6. Hop(old) = old /\ Hop(new) = new
  BY <1>3 DEF Hop
<1>7. \A x \in Token : Hop(x)' = IF x = old THEN new ELSE Hop(x)
  BY <1>2, <1>3, <1>4, <1>5 DEF Hop
<1>8. \A x \in Token : Hops'[x] = IF x = old THEN new ELSE Hops[x]
  BY <1>7 DEF Hops
<1>9. /\ Resolved'
      /\ \A x \in Token : Resolve(x)' = IF Resolve(x) = old THEN new ELSE Resolve(x)
  BY <1>0, <1>2, <1>6, <1>8, RotatedHops
<1>10. AliasesAreGone'
  <2> SUFFICES ASSUME NEW x \in Token, alias'[x] # NoToken
               PROVE  status'[x] = "absent" /\ x \in issued' /\ alias'[x] \in issued'
    BY DEF AliasesAreGone
  <2>1. CASE x = old
    <3>1. alias'[old] = new /\ status'[old] = "absent"
      BY <1>4, <1>5
    <3>2. old \in issued' /\ new \in issued'
      BY <1>1, <1>2
    <3> QED
      BY <2>1, <3>1, <3>2
  <2>2. CASE x # old
    <3>1. alias'[x] = alias[x] /\ x # new
      BY <1>3, <1>5, <2>2
    <3>2. status'[x] = status[x]
      BY <1>4, <2>2, <3>1
    <3> QED
      BY <1>0, <1>1, <3>1, <3>2 DEF AliasesAreGone
  <2> QED
    BY <2>1, <2>2
<1> DEFINE Was(t) == IF t = new THEN old ELSE t
<1>11. ASSUME NEW t \in Token, Live(t)'
       PROVE  Live(Was(t)) /\ \A x \in issued : Resolve(x)' = t <=> Resolve(x) = Was(t)
  <2>1. t # old /\ Live(Was(t))
    BY <1>1, <1>2, <1>4, <1>11 DEF Live
  <2>2. ASSUME NEW x \in issued
        PROVE  Resolve(x)' = t <=> Resolve(x) = Was(t)
    <3>1. x \in Token /\ Resolve(x) # new
      BY <1>0, <1>1, <2>2, IssuedResolves DEF TypeOK
    <3> QED
      BY <1>9, <2>1, <3>1
  <2> QED
    BY <2>1, <2>2
<1>12. ASSUME NEW r \in Request, pc[r] \in Holding, NEW t \in Token, Live(t)'
       PROVE  /\ Resolve(tok[r])' = t <=> Resolve(tok[r]) = Was(t)
              /\ Resolve(orig[r])' = t <=> Resolve(orig[r]) = Was(t)
  <2>1. PICK x \in issued, y \in issued : x = orig[r] /\ y = tok[r]
    BY <1>12 DEF CountInvariant, SameAccount
  <2>2. Resolve(orig[r])' = Resolve(x)' /\ Resolve(tok[r])' = Resolve(y)'
    BY <1>1, <2>1
  <2> QED
    BY <1>11, <1>12, <2>1, <2>2
<1>13. SameAccount'
  <2>1. \A t \in Token : Was(t) \in Token
    OBVIOUS
  <2> SUFFICES ASSUME NEW r \in Request, pc[r] \in Holding
               PROVE  /\ orig[r] \in issued /\ tok[r] \in issued
                      /\ \A t \in Token : Live(t)' => (Resolve(orig[r])' = t <=> Resolve(tok[r])' = t)
    BY <1>1 DEF SameAccount
  <2>2. orig[r] \in issued /\ tok[r] \in issued
    BY DEF CountInvariant, SameAccount
  <2>3. ASSUME NEW t \in Token, Live(t)'
        PROVE  Resolve(orig[r])' = t <=> Resolve(tok[r])' = t
    <3>1. Resolve(orig[r]) = Was(t) <=> Resolve(tok[r]) = Was(t)
      BY <1>11, <2>1, <2>3 DEF CountInvariant, SameAccount
    <3> QED
      BY <1>12, <2>3, <3>1
  <2> QED
    BY <2>2, <2>3
<1>14. SlotsCounted'
  <2> SUFFICES ASSUME NEW t \in Token, Live(t)'
               PROVE  Cardinality(Holders(t)') <= inflight'[t]
    BY DEF SlotsCounted
  <2> DEFINE w == Was(t)
  <2>1. w \in Token /\ Live(w)
    BY <1>11
  <2>2. Cardinality(Holders(w)) <= inflight[w] /\ inflight[w] \in Nat
    BY <1>0, <2>1 DEF CountInvariant, SlotsCounted, TypeOK
  <2>3. PICK v \in Token : v = w
    BY <2>1
  <2>4. Holders(t)' \in SUBSET Holders(v)
    BY <1>1, <1>12, <2>3 DEF Holders
  <2>5. /\ Cardinality(Holders(t)') <= Cardinality(Holders(v))
        /\ Cardinality(Holders(v)) \in Nat /\ Cardinality(Holders(t)') \in Nat
    BY <2>4, HoldersFinite
  <2>6. inflight'[t] \in Nat /\ inflight'[t] >= inflight[v]
    <3>1. t # old /\ inflight[old] \in Nat /\ inflight[t] \in Nat
      BY <1>0, <1>4 DEF Live, TypeOK
    <3>2. inflight'[t] = IF t = new THEN inflight[t] + inflight[old] ELSE inflight[t]
      BY <1>0, <1>1, <1>2, <3>1 DEF TypeOK
    <3> QED
      BY <2>3, <3>1, <3>2
  <2> QED
    BY <2>2, <2>3, <2>5, <2>6
<1>15. NoProgressOnly'
  BY <1>1 DEF CountInvariant, NoProgressOnly
<1> QED
  BY <1>9, <1>10, <1>13, <1>14, <1>15 DEF CountInvariant, ChainInvariant

-----------------------------------------------------------------------------
(* The pools the count is about: no account is deleted and imported again, *)
(* and no stream ends after mere progress, which releases its slot twice.  *)
CountSetting ==
  /\ ~Deleting
  /\ "progress" \notin Outcome
  /\ IsFiniteSet(Request)

LEMMA StepCounts ==
  ASSUME CountSetting, CountInvariant, SlotInvariant', NEW r \in Request, Step(r)
  PROVE  CountInvariant'
<1> USE DEF Goto, accountVars, slotVars
<1>0. TypeOK /\ TypeOK' /\ ChainInvariant /\ NoProgressOnly /\ IsFiniteSet(Request)
  BY DEF CountSetting, CountInvariant, SlotInvariant, TypeInvariant
<1>1. CASE Acquire(r)
  BY <1>0, <1>1, AcquireCounts
<1>2. CASE Reject(r)
  <2>1. pc[r] \in Holding /\ pc'[r] \notin Holding /\ \A q \in Request \ {r} : pc'[q] = pc[q]
    BY <1>0, <1>2 DEF Reject, Holding, TypeOK
  <2> QED
    BY <1>0, <1>2, <2>1, ReleaseCounts DEF Reject
<1>3. CASE MarkRelease(r)
  <2>1. pc[r] \in Holding /\ pc'[r] \notin Holding /\ \A q \in Request \ {r} : pc'[q] = pc[q]
    BY <1>0, <1>3 DEF MarkRelease, Holding, TypeOK
  <2> QED
    BY <1>0, <1>3, <2>1, ReleaseCounts DEF MarkRelease
<1>4. ASSUME \/ Refuse(r) \/ Gate(r) \/ FetchFails(r) \/ Reserve(r) \/ Hold(r)
             \/ RejectEgress(r) \/ Check(r) \/ Answer(r) \/ MarkEgress(r)
             \/ FetchOk(r) \/ FetchInvalid(r) \/ Book(r) \/ Invalid(r) \/ Verify(r)
      PROVE  CountInvariant'
  <2>1. Calm /\ \A t \in Token : Live(t)' => inflight'[t] = inflight[t]
    <3>1. CASE UNCHANGED <<status, alias, issued, inflight>>
      BY <1>0, <3>1, CalmIfNoneEnters DEF Live
    <3>2. CASE FetchOk(r)
      <4> DEFINE t == Resolve(orig[r])
      <4>1. PICK q \in 0..MaxQuota : Store(t, IF q = 0 THEN "limited" ELSE "normal", q)
        BY <3>2 DEF FetchOk
      <4>2. Live(t) /\ UNCHANGED <<alias, issued, inflight>>
        BY <3>2 DEF FetchOk
      <4> QED
        BY <1>0, <4>1, <4>2, CalmIfStored
    <3>3. CASE FetchInvalid(r)
      BY <1>0, <3>3, CalmIfRemoved DEF FetchInvalid
    <3>4. CASE Book(r)
      <4> DEFINE t == Resolve(tok[r])
      <4>1. Booking(r, t) /\ UNCHANGED <<alias, issued, inflight>>
        BY <3>4 DEF Book
      <4>2. CASE UNCHANGED <<status, quota, open>>
        BY <1>0, <4>1, <4>2, CalmIfNoneEnters DEF Live
      <4>3. CASE Live(t) /\ BookSuccess(t)
        BY <1>0, <4>1, <4>3, CalmIfStored DEF BookSuccess
      <4>4. CASE Live(t) /\ Store(t, status[t], quota[t])
        BY <1>0, <4>1, <4>4, CalmIfStored
      <4> QED
        BY <4>1, <4>2, <4>3, <4>4 DEF Booking
    <3>5. CASE Invalid(r) \/ Verify(r)
      BY <1>0, <3>1, <3>5, CalmIfRemoved DEF Invalid, Verify
    <3> QED
      BY <1>4, <3>1, <3>2, <3>3, <3>4, <3>5
         DEF Refuse, Gate, FetchFails, Reserve, Hold, RejectEgress, Check, Answer, MarkEgress
  <2>2. NoProgressOnly'
    <3>1. CASE Answer(r)
      BY <1>0, <3>1 DEF Answer, CountSetting, NoProgressOnly, TypeOK
    <3>2. CASE Book(r)
      BY <1>0, <3>2 DEF Book, NoProgressOnly, TypeOK
    <3>3. CASE out' = out
      BY <1>0, <3>3 DEF NoProgressOnly
    <3> QED
      BY <1>4, <3>1, <3>2, <3>3
         DEF Refuse, Gate, FetchFails, Reserve, Hold, RejectEgress, Check, MarkEgress,
             FetchOk, FetchInvalid, Invalid, Verify
  <2>3. \A q \in Request : orig'[q] = orig[q]
    BY <1>4 DEF Refuse, Gate, FetchFails, Reserve, Hold, RejectEgress, Check, Answer,
                MarkEgress, FetchOk, FetchInvalid, Book, Invalid, Verify
  <2>4. \A q \in Request : tok'[q] = tok[q] \/ tok'[q] = Resolve(orig[q])
    <3>1. CASE FetchOk(r)
      BY <1>0, <3>1 DEF FetchOk, TypeOK
    <3>2. CASE tok' = tok
      BY <3>2
    <3> QED
      BY <1>4, <3>1, <3>2
         DEF Refuse, Gate, FetchFails, Reserve, Hold, RejectEgress, Check, Answer,
             MarkEgress, FetchInvalid, Book, Invalid, Verify
  <2>5. \A q \in Request \ {r} : pc'[q] = pc[q]
    BY <1>0, <1>4 DEF Refuse, Gate, FetchFails, Reserve, Hold, RejectEgress, Check, Answer,
                      MarkEgress, FetchOk, FetchInvalid, Book, Invalid, Verify, TypeOK
  <2>6. pc'[r] \in Holding => pc[r] \in Holding
    <3>1. CASE Book(r)
      <4>1. AfterBook(r) \notin Holding
        BY <1>0 DEF AfterBook, Holding, NoProgressOnly
      <4> QED
        BY <1>0, <3>1, <4>1 DEF Book, TypeOK
    <3>2. CASE Refuse(r) \/ RejectEgress(r) \/ MarkEgress(r) \/ Invalid(r) \/ Verify(r)
      BY <1>0, <3>2 DEF Refuse, RejectEgress, MarkEgress, Invalid, Verify, Holding, TypeOK
    <3>3. CASE \/ Gate(r) \/ FetchFails(r) \/ Reserve(r) \/ Hold(r)
               \/ Check(r) \/ Answer(r) \/ FetchOk(r) \/ FetchInvalid(r)
      BY <3>3 DEF Gate, FetchFails, Reserve, Hold, Check, Answer, FetchOk, FetchInvalid, Holding
    <3> QED
      BY <1>4, <3>1, <3>2, <3>3
  <2>7. \A q \in Request : pc'[q] \in Holding =>
          /\ pc[q] \in Holding
          /\ orig'[q] = orig[q]
          /\ tok'[q] = tok[q] \/ tok'[q] = Resolve(orig[q])
    BY <2>3, <2>4, <2>5, <2>6
  <2> QED
    BY <1>0, <2>1, <2>2, <2>7, CalmKeepsCount
<1> QED
  BY <1>1, <1>2, <1>3, <1>4 DEF Step

LEMMA InitCounts == Init => CountInvariant
<1> SUFFICES ASSUME Init PROVE CountInvariant
  OBVIOUS
<1>1. SlotInvariant /\ TypeOK
  BY InitSlots DEF SlotInvariant, TypeInvariant
<1>2. \A t \in Token : Hops[t] = t
  BY DEF Init, Hops, Hop
<1>3. Resolved
  BY <1>1, <1>2, HopsTyped, EndOfItself DEF Resolved
<1>4. AliasesAreGone /\ NoProgressOnly
  BY DEF Init, AliasesAreGone, NoProgressOnly
<1>5. \A r \in Request : pc[r] \notin Holding
  BY DEF Init, Holding
<1>6. SameAccount
  BY <1>5 DEF SameAccount
<1>7. SlotsCounted
  <2>1. \A t \in Token : Holders(t) = {}
    BY <1>5 DEF Holders
  <2>2. Cardinality({}) = 0
    BY FS_EmptySet
  <2>3. \A t \in Token : inflight[t] = 0
    BY DEF Init
  <2> QED
    BY <2>1, <2>2, <2>3 DEF SlotsCounted
<1> QED
  BY <1>1, <1>3, <1>4, <1>6, <1>7 DEF CountInvariant, ChainInvariant

LEMMA NextCounts == CountSetting /\ CountInvariant /\ [Next]_vars => CountInvariant'
<1> SUFFICES ASSUME CountSetting, CountInvariant, [Next]_vars PROVE CountInvariant'
  OBVIOUS
<1>0. SlotInvariant' /\ TypeOK /\ TypeOK' /\ ChainInvariant /\ NoProgressOnly /\ IsFiniteSet(Request)
  BY NextSlots DEF CountSetting, CountInvariant, SlotInvariant, TypeInvariant
<1>1. ASSUME NEW r \in Request, Step(r)
      PROVE  CountInvariant'
  BY <1>0, <1>1, StepCounts
<1>2. ASSUME NEW old \in Token, NEW new \in Token, Rotate(old, new)
      PROVE  CountInvariant'
  BY <1>0, <1>2, RotateCounts
<1>3. CASE UNCHANGED <<status, alias, issued, inflight, requestVars>>
  <2>1. Calm /\ \A t \in Token : Live(t)' => inflight'[t] = inflight[t]
    BY <1>0, <1>3, CalmIfNoneEnters DEF Live
  <2>2. NoProgressOnly'
    BY <1>0, <1>3 DEF requestVars, NoProgressOnly
  <2> QED
    BY <1>0, <1>3, <2>1, <2>2, CalmKeepsCount DEF requestVars
<1>4. CASE Environment
  BY <1>2, <1>3, <1>4
     DEF Environment, Delete, Import, BreakerOpens, BreakerCools, CountSetting,
         accountVars, slotVars
<1>5. CASE UNCHANGED vars
  BY <1>3, <1>5 DEF vars, accountVars, slotVars
<1> QED
  BY <1>1, <1>4, <1>5 DEF Next

(* Every slot in use is counted, whatever tokens rotate under the requests *)
(* and whatever accounts leave: release_image_slot finds the account by    *)
(* its aliases.  Left out are the two ways in which the code loses count:  *)
(* the deletion of an account that is in use, and a stream that ends after *)
(* mere progress (CountSetting).                                           *)
THEOREM SlotsAreCounted ==
  ASSUME CountSetting
  PROVE  Spec => []SlotsCounted
<1>1. CountInvariant => SlotsCounted
  BY DEF CountInvariant
<1>2. CountInvariant /\ [Next]_vars => CountInvariant'
  BY NextCounts
<1> QED
  BY InitCounts, <1>1, <1>2, PTL DEF Spec
=============================================================================
