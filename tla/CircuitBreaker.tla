--------------------------- MODULE CircuitBreaker ---------------------------
(***************************************************************************)
(* The circuit breaker of one account (services/circuit_breaker.py), at    *)
(* the granularity of the operations of its state store.                   *)
(*                                                                         *)
(* CircuitBreakerRegistry.get builds a new CircuitBreaker object, with a   *)
(* new lock, on every call, so two request threads never exclude each      *)
(* other: only a single operation of the store is atomic.  Every method is *)
(* therefore split at the points where it reads or writes the store.       *)
(*                                                                         *)
(* Keys are independent of each other, so one key is modelled.  Time is    *)
(* abstracted to whether recovery_timeout has elapsed since the opened_at  *)
(* that is stored ("cooled").                                              *)
(*                                                                         *)
(* The store may stop answering (a Redis server that is down or slow).     *)
(* SharedBreakerStateStore turns every exception of the backend into an    *)
(* ordinary result: a failing read is a missing key, a failing count is 1, *)
(* a failing write or delete is passed over, whether it reached the        *)
(* server or not.                                                          *)
(***************************************************************************)
EXTENDS Naturals

CONSTANTS
  Threads,      \* the request threads that share the breaker of this account
  Threshold,    \* failure_threshold
  MaxCalls      \* half_open_max_calls

ASSUME ThresholdAssumption == Threshold \in Nat \ {0}
ASSUME MaxCallsAssumption == MaxCalls \in Nat \ {0}

VARIABLES
  reachable,  \* the backend of the store answers
  unsure,     \* the last count, reset or trip was not answered (a history variable)
  store,      \* the state dict under the breaker's key
  fails,      \* the separate atomic counter under "{key}:fail"
  seen,       \* the key is in _orphan_last_seen of the registry
  reg,        \* the thread inside remove/prune_orphans, which holds the registry lock
  pc,         \* where each request thread is
  snap        \* what each request thread last read from the store

vars == <<reachable, unsure, store, fails, seen, reg, pc, snap>>

(* A deleted or never written key reads as CLOSED (_read_state). *)
Missing == [st |-> "closed", succ |-> 0, cooled |-> FALSE, present |-> FALSE]

Dict(st, succ, cooled) ==
  [st |-> st, succ |-> succ, cooled |-> cooled, present |-> TRUE]

StoreValues ==
  [st : {"closed", "open", "half_open"}, succ : 0..MaxCalls,
   cooled : BOOLEAN, present : BOOLEAN]

Init ==
  /\ reachable = TRUE
  /\ unsure = FALSE
  /\ store = Missing
  /\ fails = 0
  /\ seen = FALSE
  /\ reg = "idle"
  /\ pc = [p \in Threads |-> "idle"]
  /\ snap = [p \in Threads |-> Missing]

-----------------------------------------------------------------------------
(* The store. *)

(* SharedBreakerStateStore.get: no answer reads as no state. *)
Read == IF reachable THEN store ELSE Missing

(* set and delete: without an answer the operation was done or was not. *)
Write(value) == store' \in IF reachable THEN {value} ELSE {store, value}

(* reset_failures. *)
WriteNoFailures ==
  /\ fails' \in IF reachable THEN {0} ELSE {fails, 0}
  /\ unsure' = ~reachable

(* The backend stops answering between any two operations ... *)
Outage ==
  /\ reachable
  /\ reachable' = FALSE
  /\ UNCHANGED <<unsure, store, fails, seen, reg, pc, snap>>

(* ... and comes back. *)
Recovery ==
  /\ ~reachable
  /\ reachable' = TRUE
  /\ UNCHANGED <<unsure, store, fails, seen, reg, pc, snap>>

-----------------------------------------------------------------------------
(* Steps of a request thread. *)

Goto(p, from, to) ==
  /\ pc[p] = from
  /\ pc' = [pc EXCEPT ![p] = to]

(* CircuitBreakerRegistry.get, under the registry lock. *)
Get(p) ==
  /\ reg = "idle"
  /\ Goto(p, "idle", "allow")
  /\ seen' = TRUE
  /\ UNCHANGED <<reachable, unsure, store, fails, reg, snap>>

(* Mutant: the cooldown is never seen to have elapsed. *)
AllowReadNeverCooled(p) ==
  /\ Goto(p, "allow", IF Read.st # "open" THEN "work" ELSE "idle")
  /\ snap' = [snap EXCEPT ![p] = Read]
  /\ UNCHANGED <<reachable, unsure, store, fails, seen, reg>>

(* allow_request: the read of the state getter, and its decision. *)
AllowRead(p) ==
  /\ Goto(p, "allow", CASE Read.st # "open" -> "work"
                        [] Read.st = "open" /\ Read.cooled -> "half_open"
                        [] OTHER -> "idle")
  /\ snap' = [snap EXCEPT ![p] = Read]
  /\ UNCHANGED <<reachable, unsure, store, fails, seen, reg>>

(* The write of HALF_OPEN by the state getter, from what it read. *)
WriteHalfOpen(p) ==
  /\ Goto(p, "half_open", "work")
  /\ Write(Dict("half_open", 0, snap[p].cooled))
  /\ UNCHANGED <<reachable, unsure, fails, seen, reg, snap>>

(* The upstream call ends.  The caller records the outcome on the breaker  *)
(* it holds or on one it gets again, which marks the key as seen.          *)
Finish(p) ==
  /\ \/ Goto(p, "work", "success")
     \/ Goto(p, "work", "failure")
  /\ \/ UNCHANGED seen
     \/ reg = "idle" /\ seen' = TRUE
  /\ UNCHANGED <<reachable, unsure, store, fails, reg, snap>>

(* The read of record_success. *)
SuccessRead(p) ==
  /\ Goto(p, "success",
          CASE Read.st = "open" -> "idle"
            [] Read.st = "half_open" /\ Read.succ + 1 < MaxCalls -> "bump"
            [] OTHER -> "close")
  /\ snap' = [snap EXCEPT ![p] = Read]
  /\ UNCHANGED <<reachable, unsure, store, fails, seen, reg>>

(* record_success in HALF_OPEN below half_open_max_calls. *)
WriteBump(p) ==
  /\ Goto(p, "bump", "idle")
  /\ Write(Dict("half_open", snap[p].succ + 1, snap[p].cooled))
  /\ UNCHANGED <<reachable, unsure, fails, seen, reg, snap>>

(* record_success in CLOSED, or the last one in HALF_OPEN: first the dict. *)
WriteClosed(p) ==
  /\ Goto(p, "close", "reset")
  /\ Write(Dict("closed", 0, FALSE))
  /\ UNCHANGED <<reachable, unsure, fails, seen, reg, snap>>

(* ... then the counter. *)
ResetFailures(p) ==
  /\ Goto(p, "reset", "idle")
  /\ WriteNoFailures
  /\ UNCHANGED <<reachable, store, seen, reg, snap>>

(* The read of record_failure. *)
FailureRead(p) ==
  /\ Goto(p, "failure", IF Read.st = "half_open" THEN "trip" ELSE "incr")
  /\ snap' = [snap EXCEPT ![p] = Read]
  /\ UNCHANGED <<reachable, unsure, store, fails, seen, reg>>

(* Counts above the threshold are told apart by nothing, so the counter    *)
(* saturates there.                                                        *)
OneFailureMore == IF fails < Threshold THEN fails + 1 ELSE fails

(* Mutant: the threshold must be exceeded. *)
IncrFailuresLate(p) ==
  LET count == IF reachable THEN OneFailureMore ELSE 1
  IN /\ Goto(p, "incr", IF count > Threshold THEN "trip" ELSE "idle")
     /\ fails' \in IF reachable THEN {OneFailureMore} ELSE {fails, OneFailureMore}
     /\ unsure' = ~reachable
     /\ UNCHANGED <<reachable, store, seen, reg, snap>>

(* incr_failure: a failing count is taken for 1, done or not. *)
IncrFailures(p) ==
  LET count == IF reachable THEN OneFailureMore ELSE 1
  IN /\ Goto(p, "incr", IF count >= Threshold THEN "trip" ELSE "idle")
     /\ fails' \in IF reachable THEN {OneFailureMore} ELSE {fails, OneFailureMore}
     /\ unsure' = ~reachable
     /\ UNCHANGED <<reachable, store, seen, reg, snap>>

(* _trip: the counter is left as it is. *)
Trip(p) ==
  /\ Goto(p, "trip", "idle")
  /\ Write(Dict("open", 0, FALSE))
  /\ unsure' = ~reachable
  /\ UNCHANGED <<reachable, fails, seen, reg, snap>>

-----------------------------------------------------------------------------
(* recovery_timeout elapses after opened_at. *)
Cool ==
  /\ store.st = "open" /\ ~store.cooled
  /\ store' = [store EXCEPT !.cooled = TRUE]
  /\ UNCHANGED <<reachable, unsure, fails, seen, reg, pc, snap>>

(* remove (account deleted or its token rotated), and prune_orphans for a  *)
(* key it has on record: the dict first ...                                *)
RemoveState ==
  /\ reg = "idle"
  /\ reg' = "removing"
  /\ Write(Missing)
  /\ UNCHANGED <<reachable, unsure, fails, seen, pc, snap>>

(* ... then the counter and the record of the key. *)
RemoveFailures ==
  /\ reg = "removing"
  /\ reg' = "idle"
  /\ WriteNoFailures
  /\ seen' = FALSE
  /\ UNCHANGED <<reachable, store, pc, snap>>

-----------------------------------------------------------------------------
Step(p) ==
  \/ Get(p) \/ AllowRead(p) \/ WriteHalfOpen(p) \/ Finish(p)
  \/ SuccessRead(p) \/ WriteBump(p) \/ WriteClosed(p) \/ ResetFailures(p)
  \/ FailureRead(p) \/ IncrFailures(p) \/ Trip(p)

Next ==
  \/ \E p \in Threads : Step(p)
  \/ Outage
  \/ Recovery
  \/ Cool
  \/ RemoveState
  \/ RemoveFailures

Spec == Init /\ [][Next]_vars

(* Threads run, time passes, remove returns; nobody has to call remove, and*)
(* nobody promises that the store comes back.                              *)
FairSpec ==
  /\ Spec
  /\ \A p \in Threads : WF_vars(Step(p))
  /\ WF_vars(Cool)
  /\ WF_vars(RemoveFailures)

-----------------------------------------------------------------------------
Locations ==
  {"idle", "allow", "half_open", "work", "success", "bump", "close", "reset",
   "failure", "incr", "trip"}

(* The type invariant. A bump is only pending below half_open_max_calls. *)
TypeOK ==
  /\ reachable \in BOOLEAN
  /\ unsure \in BOOLEAN
  /\ store \in StoreValues
  /\ fails \in 0..Threshold
  /\ seen \in BOOLEAN
  /\ reg \in {"idle", "removing"}
  /\ pc \in [Threads -> Locations]
  /\ snap \in [Threads -> StoreValues]
  /\ \A p \in Threads : pc[p] = "bump" => snap[p].succ + 1 < MaxCalls

(* No trip is lost by the order of things: the breaker rests CLOSED with   *)
(* the counter at the threshold only if the store failed to answer the     *)
(* last count, reset or trip.  Otherwise some thread is about to write     *)
(* OPEN or to reset the counter, or remove is.  This is what incrementing  *)
(* before tripping and closing before resetting, in record_failure and     *)
(* record_success, are for; and as _trip leaves the counter where it is,   *)
(* the next failure the store counts makes up for a trip it lost.          *)
NoLostTrip ==
  store.st = "closed" /\ fails >= Threshold =>
     \/ \E p \in Threads : pc[p] \in {"trip", "reset"}
     \/ reg = "removing"
     \/ unsure

(* An open breaker is probed again once the store answers for good,        *)
(* whatever failures of requests admitted earlier, or during an outage,    *)
(* arrive late and restart its cooldown (_trip from OPEN).                 *)
OpenIsProbed == <>[]reachable => ((store.st = "open") ~> (store.st # "open"))

(* What the comment in record_success demands: OPEN is left for HALF_OPEN  *)
(* only, and only after the cooldown (a deleted key aside).                *)
OpenOnlyCoolsDown ==
  [][store.st = "open" /\ store'.st # "open" /\ store'.present
       => store'.st = "half_open" /\ store.cooled]_vars

(* What the registry's docstring promises: with no call in progress, a     *)
(* breaker that is stored can be found by prune_orphans, which only looks  *)
(* at the keys in _orphan_last_seen.                                       *)
StoredIsPrunable ==
  reg = "idle" /\ (\A p \in Threads : pc[p] = "idle") /\ store.present => seen
=============================================================================
