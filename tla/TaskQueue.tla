----------------------------- MODULE TaskQueue -----------------------------
(***************************************************************************)
(* The priority task queue of services/task_queue.py: clients enqueue,     *)
(* cancel and clean up; one consumer thread takes tasks in order and hands *)
(* each to a worker thread of its own, as long as the semaphore has        *)
(* permits; a task it took and cannot hand over goes back to the front.    *)
(*                                                                         *)
(* Each action is one section under TaskQueue._lock, or one operation of   *)
(* the semaphore.  The priority of a task is fixed by its kind.            *)
(***************************************************************************)
EXTENDS Naturals, Sequences, FiniteSets

CONSTANTS
  Task,
  Priority,      \* TaskPriority: the smaller, the more urgent
  PriorityOf,    \* the priority each task is enqueued with
  MaxWorkers,    \* max_workers
  Consumer,      \* the consumer threads start_consumer may create
  NoTask,
  NoConsumer,
  Stopping       \* whether stop_consumer may be called

ASSUME PriorityAssumption == Priority \subseteq Nat /\ PriorityOf \in [Task -> Priority]
ASSUME WorkersAssumption == MaxWorkers \in Nat
ASSUME NoneAssumption == NoTask \notin Task /\ NoConsumer \notin Consumer
ASSUME StoppingAssumption == Stopping \in BOOLEAN

VARIABLES
  status,     \* Task.status, "new" before it is enqueued, "gone" once cleaned up
  queue,      \* _queues
  permits,    \* the value of _worker_semaphore
  stop,       \* _stop_event
  current,    \* _consumer_thread
  pc,         \* where each consumer thread is
  hand,       \* the task a consumer thread has dequeued and not passed on
  worker,     \* the worker thread of each task
  arrived     \* the order in which tasks were enqueued (history)

threadVars == <<stop, current, pc>>
vars == <<status, queue, permits, threadVars, hand, worker, arrived>>

Terminal == {"success", "error", "cancelled"}

Init ==
  /\ status = [t \in Task |-> "new"]
  /\ queue = [p \in Priority |-> <<>>]
  /\ permits = MaxWorkers
  /\ stop = FALSE
  /\ current = NoConsumer
  /\ pc = [c \in Consumer |-> "off"]
  /\ hand = [c \in Consumer |-> NoTask]
  /\ worker = [t \in Task |-> "none"]
  /\ arrived = <<>>

-----------------------------------------------------------------------------
(* The clients. *)

Enqueue(t) ==
  /\ status[t] = "new"
  /\ status' = [status EXCEPT ![t] = "pending"]
  /\ queue' = [queue EXCEPT ![PriorityOf[t]] = Append(@, t)]
  /\ arrived' = Append(arrived, t)
  /\ UNCHANGED <<permits, threadVars, hand, worker>>

(* Mutant: a running task is cancelled as well. *)
MayCancelAnything(t) == status[t] \in {"pending", "running"}
MayCancel(t) == status[t] = "pending"

(* The id of a cancelled task stays in its queue. *)
Cancel(t) ==
  /\ MayCancel(t)
  /\ status' = [status EXCEPT ![t] = "cancelled"]
  /\ UNCHANGED <<queue, permits, threadVars, hand, worker, arrived>>

(* cleanup, of the terminal tasks that are old enough. *)
Cleanup(t) ==
  /\ status[t] \in Terminal
  /\ status' = [status EXCEPT ![t] = "gone"]
  /\ UNCHANGED <<queue, permits, threadVars, hand, worker, arrived>>

Alive(c) == c # NoConsumer /\ pc[c] \notin {"off", "exited"}

(* start_consumer returns at once while the thread it knows is alive. *)
StartConsumer(c) ==
  /\ current = NoConsumer \/ ~Alive(current)
  /\ pc[c] = "off"
  /\ stop' = FALSE
  /\ current' = c
  /\ pc' = [pc EXCEPT ![c] = "loop"]
  /\ UNCHANGED <<status, queue, permits, hand, worker, arrived>>

(* stop_consumer; its join may time out, so nothing follows from it. *)
StopConsumer ==
  /\ Stopping /\ ~stop
  /\ stop' = TRUE
  /\ UNCHANGED <<status, queue, permits, current, pc, hand, worker, arrived>>

-----------------------------------------------------------------------------
(* The consumer loop. *)

Goto(c, from, to) ==
  /\ pc[c] = from
  /\ pc' = [pc EXCEPT ![c] = to]

Exit(c) ==
  /\ stop
  /\ Goto(c, "loop", "exited")
  /\ UNCHANGED <<status, queue, permits, stop, current, hand, worker, arrived>>

PendingAt(q) == {i \in 1..Len(q) : status[q[i]] = "pending"}
First(S) == CHOOSE x \in S : \A y \in S : x <= y

(* dequeue: the most urgent queue with a pending task gives its first one; *)
(* what is cancelled or gone in front of it, and in more urgent queues, is *)
(* dropped.                                                                *)
Urgent == {p \in Priority : PendingAt(queue[p]) # {}}

(* Mutant: the task that is taken stays in its queue. *)
BehindAndTaken(q) == SubSeq(q, First(PendingAt(q)), Len(q))
Behind(q) == SubSeq(q, First(PendingAt(q)) + 1, Len(q))

Dequeue(c) ==
  LET p == First(Urgent)
      t == queue[p][First(PendingAt(queue[p]))]
  IN /\ ~stop
     /\ Urgent # {}
     /\ Goto(c, "loop", "acquire")
     /\ status' = [status EXCEPT ![t] = "running"]
     /\ queue' = [x \in Priority |-> CASE x < p -> <<>>
                                       [] x = p -> Behind(queue[p])
                                       [] OTHER -> queue[x]]
     /\ hand' = [hand EXCEPT ![c] = t]
     /\ UNCHANGED <<permits, stop, current, worker, arrived>>

(* dequeue finds nothing pending, and empties the queues of the rest. *)
DequeueNothing(c) ==
  /\ ~stop /\ pc[c] = "loop"
  /\ Urgent = {}
  /\ queue' = [p \in Priority |-> <<>>]
  /\ UNCHANGED <<status, permits, threadVars, hand, worker, arrived>>

(* A permit is free: the task gets a worker thread. *)
Dispatch(c) ==
  /\ permits > 0
  /\ Goto(c, "acquire", "loop")
  /\ permits' = permits - 1
  /\ worker' = [worker EXCEPT ![hand[c]] = "running"]
  /\ hand' = [hand EXCEPT ![c] = NoTask]
  /\ UNCHANGED <<status, queue, stop, current, arrived>>

(* Every worker is busy. *)
NoWorker(c) ==
  /\ permits = 0
  /\ Goto(c, "acquire", "requeue")
  /\ UNCHANGED <<status, queue, permits, stop, current, hand, worker, arrived>>

(* Mutant: the task goes to the end of its queue. *)
PutBackLast(q, t) == Append(q, t)
PutBack(q, t) == <<t>> \o q

(* _re_enqueue. *)
Requeue(c) ==
  LET t == hand[c]
  IN /\ Goto(c, "requeue", "loop")
     /\ status' = [status EXCEPT ![t] = "pending"]
     /\ queue' = [queue EXCEPT ![PriorityOf[t]] = PutBack(@, t)]
     /\ hand' = [hand EXCEPT ![c] = NoTask]
     /\ UNCHANGED <<permits, stop, current, worker, arrived>>

-----------------------------------------------------------------------------
(* The worker threads. *)

(* The handler returns or raises, or there is none: complete or fail. *)
Settle(t) ==
  /\ worker[t] = "running"
  /\ worker' = [worker EXCEPT ![t] = "settled"]
  /\ \E s \in {"success", "error"} : status' = [status EXCEPT ![t] = s]
  /\ UNCHANGED <<queue, permits, threadVars, hand, arrived>>

(* Mutant: a worker that raised keeps its permit. *)
PermitsUnlessFailed(t) == IF status[t] = "error" THEN permits ELSE permits + 1
PermitsAfter(t) == permits + 1

Release(t) ==
  /\ worker[t] = "settled"
  /\ worker' = [worker EXCEPT ![t] = "ended"]
  /\ permits' = PermitsAfter(t)
  /\ UNCHANGED <<status, queue, threadVars, hand, arrived>>

-----------------------------------------------------------------------------
Client ==
  \/ \E t \in Task : Enqueue(t) \/ Cancel(t) \/ Cleanup(t)
  \/ \E c \in Consumer : StartConsumer(c)
  \/ StopConsumer

Loop(c) ==
  Exit(c) \/ Dequeue(c) \/ DequeueNothing(c) \/ Dispatch(c) \/ NoWorker(c) \/ Requeue(c)

Work(t) == Settle(t) \/ Release(t)

Next ==
  \/ Client
  \/ \E c \in Consumer : Loop(c)
  \/ \E t \in Task : Work(t)

Spec == Init /\ [][Next]_vars

(* The consumer is started and runs, and handlers return: each is limited  *)
(* by the timeouts of the calls it makes.                                  *)
FairSpec ==
  /\ Spec
  /\ WF_vars(\E c \in Consumer : StartConsumer(c))
  /\ \A c \in Consumer : WF_vars(Loop(c))
  /\ \A t \in Task : WF_vars(Work(t))

-----------------------------------------------------------------------------
(* The type invariant. *)
TypeOK ==
  /\ status \in [Task -> {"new", "pending", "running", "gone"} \cup Terminal]
  /\ queue \in [Priority -> Seq(Task)]
  /\ permits \in 0..MaxWorkers
  /\ stop \in BOOLEAN
  /\ current \in Consumer \cup {NoConsumer}
  /\ pc \in [Consumer -> {"off", "loop", "acquire", "requeue", "exited"}]
  /\ hand \in [Consumer -> Task \cup {NoTask}]
  /\ worker \in [Task -> {"none", "running", "settled", "ended"}]
  /\ arrived \in Seq(Task)

Places(t) == UNION {{p} \X {i \in 1..Len(queue[p]) : queue[p][i] = t} : p \in Priority}
Hands(t) == {c \in Consumer : hand[c] = t}

(* No task is lost and none is taken twice: whatever the consumer, its     *)
(* stop and restart and the clients do, a pending task is in one place of  *)
(* its queue, and a running one is with one consumer or its worker.        *)
TaskIsSomewhere ==
  \A t \in Task :
    /\ status[t] = "pending" => Cardinality(Places(t)) = 1 /\ Hands(t) = {}
    /\ status[t] = "running" =>
         Places(t) = {} /\ Cardinality(Hands(t)) = IF worker[t] = "none" THEN 1 ELSE 0

(* A permit is out for each worker thread, and never for another. *)
PermitsMatchWorkers ==
  permits + Cardinality({t \in Task : worker[t] \in {"running", "settled"}}) = MaxWorkers

(* What is over stays over: no late worker, requeue or cancel overwrites   *)
(* the outcome of a task.                                                  *)
OutcomeStands ==
  [][\A t \in Task : status[t] \in Terminal => status'[t] \in {status[t], "gone"}]_vars

Before(t, u) ==
  \E i, j \in 1..Len(arrived) : i < j /\ arrived[i] = t /\ arrived[j] = u

(* The queue's promise of order, FIFO within a priority: a task that came  *)
(* earlier and is at least as urgent is not overtaken, even when workers   *)
(* are short and tasks go back to the queue.                               *)
StartsInOrder ==
  [][\A t, u \in Task :
       worker[t] = "none" /\ worker'[t] = "running"
       /\ Before(u, t) /\ PriorityOf[u] <= PriorityOf[t] => status[u] # "pending"]_vars

(* Unless the consumer is stopped for good, every task that is enqueued is *)
(* carried out, cancelled or cleaned up, those that a consumer put back    *)
(* when it was stopped included.                                           *)
Consuming == current # NoConsumer /\ Alive(current) /\ ~stop
EventuallySettled ==
  \A t \in Task :
    <>[]Consuming => (status[t] = "pending" ~> status[t] \in Terminal \cup {"gone"})

(* The queue implements JobQueue: a task in the consumer's hand has not    *)
(* started yet.                                                            *)
JobState(t) ==
  CASE status[t] = "new" -> "unknown"
    [] status[t] = "pending" -> "waiting"
    [] status[t] = "running" -> IF worker[t] = "none" THEN "waiting" ELSE "running"
    [] status[t] \in {"success", "error"} -> "ended"
    [] status[t] = "cancelled" -> "cancelled"
    [] status[t] = "gone" -> "dropped"

Jobs == INSTANCE JobQueue WITH
  Job <- Task, Capacity <- MaxWorkers, state <- [t \in Task |-> JobState(t)]

ImplementsJobQueue == Jobs!Spec
=============================================================================
