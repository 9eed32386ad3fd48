------------------------------ MODULE JobQueue ------------------------------
(***************************************************************************)
(* What the task queue promises to those who submit to it: a job is run by *)
(* at most one worker, at most once, never after it was cancelled, and no  *)
(* more than Capacity jobs run at a time.                                  *)
(***************************************************************************)
EXTENDS Naturals, FiniteSets

CONSTANTS
  Job,
  Capacity    \* how many jobs may run at the same time

VARIABLE state    \* what has become of each job

Jobs(s) == {j \in Job : state[j] = s}

Become(j, from, to) ==
  /\ state[j] = from
  /\ state' = [state EXCEPT ![j] = to]

Init == state = [j \in Job |-> "unknown"]

Submit(j) == Become(j, "unknown", "waiting")
Cancel(j) == Become(j, "waiting", "cancelled")
Start(j) == Cardinality(Jobs("running")) < Capacity /\ Become(j, "waiting", "running")
End(j) == Become(j, "running", "ended")

(* The record of a job that is over may be dropped. *)
Drop(j) == Become(j, "ended", "dropped") \/ Become(j, "cancelled", "dropped")

Next == \E j \in Job : Submit(j) \/ Cancel(j) \/ Start(j) \/ End(j) \/ Drop(j)

Spec == Init /\ [][Next]_state
=============================================================================
