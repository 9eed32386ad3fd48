-------------------------- MODULE TaskQueueProofs --------------------------
(***************************************************************************)
(* Proofs about the task queue, for any tasks, priorities and number of    *)
(* workers and any starts and stops of the consumer: it implements         *)
(* JobQueue, outcomes stand, and permits are accounted for.                *)
(*                                                                         *)
(* The inductive invariant says that only the consumer thread the queue    *)
(* knows is in its loop, that a task in its hand runs and has no worker,   *)
(* and that a worker's task runs until the worker settles it.  A second    *)
(* one, further down, says where tasks are, a third in which order.        *)
(***************************************************************************)
EXTENDS TaskQueue, FiniteSetTheorems, TLAPS

USE PriorityAssumption DEF PriorityAssumption
USE WorkersAssumption DEF WorkersAssumption
USE NoneAssumption DEF NoneAssumption
USE StoppingAssumption DEF StoppingAssumption

OneConsumer == \A c \in Consumer : c # current => pc[c] \in {"off", "exited"}

HandRuns ==
  \A c \in Consumer : pc[c] \in {"acquire", "requeue"} =>
    hand[c] \in Task /\ status[hand[c]] = "running" /\ worker[hand[c]] = "none"

WorkersRun ==
  \A t \in Task :
    /\ status[t] \in {"new", "pending"} => worker[t] = "none"
    /\ worker[t] = "running" => status[t] = "running"
    /\ status[t] = "running" => worker[t] \in {"none", "running"}

Working == {t \in Task : worker[t] \in {"running", "settled"}}

PermitsCounted ==
  /\ IsFiniteSet(Working)
  /\ permits + Cardinality(Working) = MaxWorkers

QueueInvariant ==
  /\ TypeOK
  /\ OneConsumer
  /\ HandRuns
  /\ WorkersRun
  /\ PermitsCounted

-----------------------------------------------------------------------------
(* A set of numbers that is not empty has a first one. *)
LEMMA FirstIsIn ==
  ASSUME NEW S \in SUBSET Nat, S # {}
  PROVE  First(S) \in S
<1> DEFINE R == {ss \in Nat \X Nat : ss[1] < ss[2]}
<1>1. IsWellFoundedOn(R, Nat)
  BY NatLessThanWellFounded DEF OpToRel
<1>2. PICK x \in S : \A y \in S : ~ (<<y, x>> \in R)
  <2> HIDE DEF R
  <2> QED
    BY <1>1, WFMin
<1>3. ASSUME NEW y \in S
      PROVE  x <= y
  <2>1. x \in Nat /\ y \in Nat /\ ~ (<<y, x>> \in R)
    BY <1>2
  <2>2. y < x => <<y, x>> \in R
    BY <2>1
  <2> HIDE DEF R
  <2> QED
    BY <2>1, <2>2
<1> QED
  BY <1>2, <1>3 DEF First

(* dequeue takes a pending task from a queue it is in. *)
LEMMA DequeueTakesPending ==
  ASSUME TypeOK, Urgent # {}
  PROVE  LET p == First(Urgent)
             i == First(PendingAt(queue[p]))
         IN /\ p \in Priority
            /\ i \in 1..Len(queue[p])
            /\ queue[p][i] \in Task
            /\ status[queue[p][i]] = "pending"
<1> DEFINE p == First(Urgent)
           i == First(PendingAt(queue[p]))
<1>1. p \in Urgent
  <2>1. Urgent \in SUBSET Nat
    BY DEF Urgent
  <2> QED
    BY <2>1, FirstIsIn
<1>2. p \in Priority /\ PendingAt(queue[p]) # {}
  BY <1>1 DEF Urgent
<1>3. queue[p] \in Seq(Task)
  BY <1>2 DEF TypeOK
<1>4. PendingAt(queue[p]) \in SUBSET Nat
  BY <1>3 DEF PendingAt
<1>5. i \in PendingAt(queue[p])
  BY <1>2, <1>4, FirstIsIn
<1>6. i \in 1..Len(queue[p]) /\ status[queue[p][i]] = "pending"
  BY <1>5 DEF PendingAt
<1>7. queue[p][i] \in Task
  BY <1>3, <1>6
<1> QED
  BY <1>2, <1>6, <1>7

-----------------------------------------------------------------------------
LEMMA InitInvariant == Init => QueueInvariant
<1> SUFFICES ASSUME Init PROVE QueueInvariant
  OBVIOUS
<1>1. TypeOK
  <2>1. <<>> \in Seq(Task)
    OBVIOUS
  <2>2. queue \in [Priority -> Seq(Task)]
    BY <2>1 DEF Init
  <2>3. arrived \in Seq(Task)
    BY <2>1 DEF Init
  <2>4. permits \in 0..MaxWorkers /\ current \in Consumer \cup {NoConsumer}
    BY DEF Init
  <2>8. stop \in BOOLEAN
    BY DEF Init
  <2>5. status \in [Task -> {"new", "pending", "running", "gone"} \cup Terminal]
    BY DEF Init
  <2>6. worker \in [Task -> {"none", "running", "settled", "ended"}]
    BY DEF Init
  <2>7. /\ pc \in [Consumer -> {"off", "loop", "acquire", "requeue", "exited"}]
        /\ hand \in [Consumer -> Task \cup {NoTask}]
    BY DEF Init
  <2> QED
    BY <2>2, <2>3, <2>4, <2>5, <2>6, <2>7, <2>8 DEF TypeOK
<1>2. OneConsumer /\ HandRuns /\ WorkersRun
  BY DEF Init, OneConsumer, HandRuns, WorkersRun
<1>3. PermitsCounted
  <2>1. Working = {}
    BY DEF Init, Working
  <2> QED
    BY <2>1, FS_EmptySet DEF Init, PermitsCounted
<1> QED
  BY <1>1, <1>2, <1>3 DEF QueueInvariant

(* A consumer in its loop is the one the queue knows. *)
LEMMA LoopIsCurrent ==
  ASSUME OneConsumer, NEW c \in Consumer, pc[c] \notin {"off", "exited"}
  PROVE  c = current
BY DEF OneConsumer

(* Steps of the clients. *)
LEMMA ClientStep ==
  ASSUME QueueInvariant, Client
  PROVE  QueueInvariant'
<1> USE DEF QueueInvariant
<1>1. ASSUME NEW t \in Task, Enqueue(t)
      PROVE  QueueInvariant'
  <2>1. TypeOK'
    <3>1. PriorityOf[t] \in Priority /\ queue[PriorityOf[t]] \in Seq(Task)
      BY DEF TypeOK
    <3>2. Append(queue[PriorityOf[t]], t) \in Seq(Task)
      BY <3>1
    <3>3. queue' \in [Priority -> Seq(Task)]
      BY <1>1, <3>1, <3>2 DEF Enqueue, TypeOK
    <3>4. Append(arrived, t) \in Seq(Task)
      BY DEF TypeOK
    <3> QED
      BY <1>1, <3>3, <3>4 DEF Enqueue, TypeOK, Terminal, threadVars
  <2>2. (OneConsumer /\ HandRuns)'
    BY <1>1 DEF Enqueue, TypeOK, OneConsumer, HandRuns, threadVars
  <2>3. WorkersRun'
    BY <1>1 DEF Enqueue, TypeOK, WorkersRun, threadVars
  <2>4. PermitsCounted'
    BY <1>1 DEF Enqueue, PermitsCounted, Working, threadVars
  <2> QED
    BY <2>1, <2>2, <2>3, <2>4
<1>2. ASSUME NEW t \in Task, Cancel(t) \/ Cleanup(t)
      PROVE  QueueInvariant'
  <2>1. TypeOK'
    BY <1>2 DEF Cancel, Cleanup, TypeOK, Terminal, threadVars
  <2>2. (OneConsumer /\ HandRuns)'
    BY <1>2 DEF Cancel, Cleanup, MayCancel, Terminal, TypeOK, OneConsumer, HandRuns, threadVars
  <2>3. WorkersRun'
    BY <1>2 DEF Cancel, Cleanup, MayCancel, Terminal, TypeOK, WorkersRun, threadVars
  <2>4. PermitsCounted'
    BY <1>2 DEF Cancel, Cleanup, PermitsCounted, Working, threadVars
  <2> QED
    BY <2>1, <2>2, <2>3, <2>4
<1>3. ASSUME NEW c \in Consumer, StartConsumer(c)
      PROVE  QueueInvariant'
  <2>1. TypeOK'
    BY <1>3 DEF StartConsumer, TypeOK
  <2>2. OneConsumer'
    BY <1>3 DEF StartConsumer, TypeOK, OneConsumer, Alive
  <2>3. (HandRuns /\ WorkersRun)'
    BY <1>3 DEF StartConsumer, TypeOK, HandRuns, WorkersRun
  <2>4. PermitsCounted'
    BY <1>3 DEF StartConsumer, PermitsCounted, Working
  <2> QED
    BY <2>1, <2>2, <2>3, <2>4
<1>4. CASE StopConsumer
  <2>1. TypeOK'
    BY <1>4 DEF StopConsumer, TypeOK
  <2>2. (OneConsumer /\ HandRuns /\ WorkersRun)'
    BY <1>4 DEF StopConsumer, OneConsumer, HandRuns, WorkersRun
  <2>3. PermitsCounted'
    BY <1>4 DEF StopConsumer, PermitsCounted, Working
  <2> QED
    BY <2>1, <2>2, <2>3
<1> QED
  BY <1>1, <1>2, <1>3, <1>4 DEF Client
-----------------------------------------------------------------------------
(* Steps of the consumer thread. *)
LEMMA ExitStep ==
  ASSUME QueueInvariant, NEW c \in Consumer, Exit(c)
  PROVE  QueueInvariant'
<1> USE DEF QueueInvariant
<1>1. TypeOK'
  BY DEF Exit, Goto, TypeOK
<1>2. (OneConsumer /\ HandRuns /\ WorkersRun)'
  BY DEF Exit, Goto, TypeOK, OneConsumer, HandRuns, WorkersRun
<1>3. PermitsCounted'
  BY DEF Exit, PermitsCounted, Working
<1> QED
  BY <1>1, <1>2, <1>3

LEMMA DequeueStep ==
  ASSUME QueueInvariant, NEW c \in Consumer, Dequeue(c)
  PROVE  QueueInvariant'
<1> USE DEF QueueInvariant
<1> DEFINE p == First(Urgent)
           i == First(PendingAt(queue[p]))
           t == queue[p][i]
<1>1. Urgent # {} /\ c = current /\ pc[c] = "loop"
  BY DEF Dequeue, Goto, OneConsumer
<1>2. p \in Priority /\ i \in 1..Len(queue[p]) /\ t \in Task /\ status[t] = "pending"
  BY <1>1, DequeueTakesPending
<1>3. worker[t] = "none"
  BY <1>2 DEF WorkersRun
<1>4. queue' \in [Priority -> Seq(Task)]
  <2>1. Behind(queue[p]) \in Seq(Task)
    <3>1. queue[p] \in Seq(Task)
      BY <1>2 DEF TypeOK
    <3>2. \A j \in (i + 1)..Len(queue[p]) : queue[p][j] \in Task
      BY <1>2, <3>1
    <3> HIDE DEF i, p
    <3>3. SubSeq(queue[p], i + 1, Len(queue[p])) \in Seq(Task)
      BY <1>2, <3>1, <3>2
    <3> QED
      BY <3>3 DEF Behind, i
  <2>2. queue' = [x \in Priority |-> CASE x < p -> <<>>
                                      [] x = p -> Behind(queue[p])
                                      [] OTHER -> queue[x]]
    BY DEF Dequeue
  <2> HIDE DEF p
  <2>3. \A x \in Priority : queue[x] \in Seq(Task) /\ <<>> \in Seq(Task)
    BY DEF TypeOK
  <2> QED
    BY <2>1, <2>2, <2>3
<1>5. /\ ~stop
      /\ pc' = [pc EXCEPT ![c] = "acquire"]
      /\ status' = [status EXCEPT ![t] = "running"]
      /\ hand' = [hand EXCEPT ![c] = t]
      /\ UNCHANGED <<permits, stop, current, worker, arrived>>
  BY DEF Dequeue, Goto
<1> HIDE DEF t
<1>6. TypeOK'
  BY <1>2, <1>4, <1>5 DEF TypeOK
<1>7. OneConsumer'
  BY <1>1, <1>5 DEF TypeOK, OneConsumer
<1>8. HandRuns'
  BY <1>1, <1>2, <1>3, <1>5 DEF TypeOK, OneConsumer, HandRuns
<1>9. WorkersRun'
  BY <1>2, <1>3, <1>5 DEF TypeOK, WorkersRun
<1>10. PermitsCounted'
  BY <1>5 DEF PermitsCounted, Working
<1> QED
  BY <1>6, <1>7, <1>8, <1>9, <1>10

LEMMA DequeueNothingStep ==
  ASSUME QueueInvariant, NEW c \in Consumer, DequeueNothing(c)
  PROVE  QueueInvariant'
<1> USE DEF QueueInvariant
<1>1. TypeOK'
  <2>1. <<>> \in Seq(Task)
    OBVIOUS
  <2>2. queue' \in [Priority -> Seq(Task)]
    BY <2>1 DEF DequeueNothing
  <2> QED
    BY <2>2 DEF DequeueNothing, TypeOK, threadVars
<1>2. (OneConsumer /\ HandRuns /\ WorkersRun)'
  BY DEF DequeueNothing, OneConsumer, HandRuns, WorkersRun, threadVars
<1>3. PermitsCounted'
  BY DEF DequeueNothing, PermitsCounted, Working, threadVars
<1> QED
  BY <1>1, <1>2, <1>3

(* The task that is handed over is the one in the hand of the only         *)
(* consumer: no other consumer holds a task that now has a worker.         *)
LEMMA DispatchStep ==
  ASSUME QueueInvariant, NEW c \in Consumer, Dispatch(c)
  PROVE  QueueInvariant'
<1> USE DEF QueueInvariant
<1> DEFINE t == hand[c]
<1>1. c = current /\ pc[c] = "acquire" /\ permits > 0
  BY DEF Dispatch, Goto, OneConsumer
<1>2. t \in Task /\ status[t] = "running" /\ worker[t] = "none"
  BY <1>1 DEF HandRuns
<1>3. /\ pc' = [pc EXCEPT ![c] = "loop"]
      /\ permits' = permits - 1
      /\ worker' = [worker EXCEPT ![t] = "running"]
      /\ hand' = [hand EXCEPT ![c] = NoTask]
      /\ UNCHANGED <<status, queue, stop, current, arrived>>
  BY DEF Dispatch, Goto
<1> HIDE DEF t
<1>4. TypeOK'
  BY <1>1, <1>2, <1>3 DEF TypeOK
<1>5. OneConsumer'
  BY <1>1, <1>3 DEF TypeOK, OneConsumer
<1>6. HandRuns'
  BY <1>1, <1>3 DEF TypeOK, OneConsumer, HandRuns
<1>7. WorkersRun'
  BY <1>2, <1>3 DEF TypeOK, WorkersRun
<1>8. PermitsCounted'
  <2>1. Working' = Working \cup {t} /\ t \notin Working
    BY <1>2, <1>3 DEF TypeOK, Working
  <2>2. IsFiniteSet(Working) /\ permits + Cardinality(Working) = MaxWorkers
    BY DEF PermitsCounted
  <2>3. IsFiniteSet(Working') /\ Cardinality(Working') = Cardinality(Working) + 1
    BY <2>1, <2>2, FS_AddElement
  <2>4. permits \in Nat /\ Cardinality(Working) \in Nat
    BY <2>2, FS_CardinalityType DEF TypeOK
  <2> QED
    BY <1>3, <2>2, <2>3, <2>4 DEF PermitsCounted
<1> QED
  BY <1>4, <1>5, <1>6, <1>7, <1>8

LEMMA NoWorkerStep ==
  ASSUME QueueInvariant, NEW c \in Consumer, NoWorker(c)
  PROVE  QueueInvariant'
<1> USE DEF QueueInvariant
<1>1. TypeOK'
  BY DEF NoWorker, Goto, TypeOK
<1>2. (OneConsumer /\ HandRuns /\ WorkersRun)'
  BY DEF NoWorker, Goto, TypeOK, OneConsumer, HandRuns, WorkersRun
<1>3. PermitsCounted'
  BY DEF NoWorker, PermitsCounted, Working
<1> QED
  BY <1>1, <1>2, <1>3

LEMMA RequeueStep ==
  ASSUME QueueInvariant, NEW c \in Consumer, Requeue(c)
  PROVE  QueueInvariant'
<1> USE DEF QueueInvariant
<1> DEFINE t == hand[c]
<1>1. c = current /\ pc[c] = "requeue"
  BY DEF Requeue, Goto, OneConsumer
<1>2. t \in Task /\ status[t] = "running" /\ worker[t] = "none"
  BY <1>1 DEF HandRuns
<1>3. /\ pc' = [pc EXCEPT ![c] = "loop"]
      /\ status' = [status EXCEPT ![t] = "pending"]
      /\ queue' = [queue EXCEPT ![PriorityOf[t]] = PutBack(@, t)]
      /\ hand' = [hand EXCEPT ![c] = NoTask]
      /\ UNCHANGED <<permits, stop, current, worker, arrived>>
  BY DEF Requeue, Goto
<1> HIDE DEF t
<1>4. TypeOK'
  <2>1. PriorityOf[t] \in Priority /\ queue[PriorityOf[t]] \in Seq(Task)
    BY <1>2 DEF TypeOK
  <2>2. PutBack(queue[PriorityOf[t]], t) \in Seq(Task)
    BY <1>2, <2>1 DEF PutBack
  <2>3. queue' \in [Priority -> Seq(Task)]
    BY <1>3, <2>1, <2>2 DEF TypeOK
  <2> QED
    BY <1>2, <1>3, <2>3 DEF TypeOK
<1>5. OneConsumer'
  BY <1>1, <1>3 DEF TypeOK, OneConsumer
<1>6. HandRuns'
  BY <1>1, <1>3 DEF TypeOK, OneConsumer, HandRuns
<1>7. WorkersRun'
  BY <1>2, <1>3 DEF TypeOK, WorkersRun
<1>8. PermitsCounted'
  BY <1>3 DEF PermitsCounted, Working
<1> QED
  BY <1>4, <1>5, <1>6, <1>7, <1>8

-----------------------------------------------------------------------------
(* Steps of the workers. *)
LEMMA SettleStep ==
  ASSUME QueueInvariant, NEW t \in Task, Settle(t)
  PROVE  QueueInvariant'
<1> USE DEF QueueInvariant
<1>1. worker[t] = "running" /\ status[t] = "running"
  BY DEF Settle, WorkersRun
<1>2. PICK s \in {"success", "error"} :
        /\ status' = [status EXCEPT ![t] = s]
        /\ worker' = [worker EXCEPT ![t] = "settled"]
        /\ UNCHANGED <<queue, permits, threadVars, hand, arrived>>
  BY DEF Settle
<1>3. TypeOK'
  BY <1>2 DEF TypeOK, Terminal, threadVars
<1>4. OneConsumer'
  BY <1>2 DEF OneConsumer, threadVars
<1>5. HandRuns'
  BY <1>1, <1>2 DEF TypeOK, HandRuns, threadVars
<1>6. WorkersRun'
  BY <1>1, <1>2 DEF TypeOK, WorkersRun
<1>7. PermitsCounted'
  <2>1. Working' = Working
    BY <1>1, <1>2 DEF TypeOK, Working
  <2> QED
    BY <1>2, <2>1 DEF PermitsCounted
<1> QED
  BY <1>3, <1>4, <1>5, <1>6, <1>7

LEMMA ReleaseStep ==
  ASSUME QueueInvariant, NEW t \in Task, Release(t)
  PROVE  QueueInvariant'
<1> USE DEF QueueInvariant
<1>1. /\ worker[t] = "settled"
      /\ worker' = [worker EXCEPT ![t] = "ended"]
      /\ permits' = permits + 1
      /\ UNCHANGED <<status, queue, threadVars, hand, arrived>>
  BY DEF Release, PermitsAfter
<1>2. PermitsCounted' /\ permits' \in 0..MaxWorkers
  <2>1. Working' = Working \ {t} /\ t \in Working
    BY <1>1 DEF TypeOK, Working
  <2>2. IsFiniteSet(Working) /\ permits + Cardinality(Working) = MaxWorkers
    BY DEF PermitsCounted
  <2>3. IsFiniteSet(Working') /\ Cardinality(Working') = Cardinality(Working) - 1
    BY <2>1, <2>2, FS_RemoveElement
  <2>4. /\ permits \in Nat /\ Cardinality(Working) \in Nat
        /\ Cardinality(Working') \in Nat
    BY <2>2, <2>3, FS_CardinalityType DEF TypeOK
  <2> QED
    BY <1>1, <2>2, <2>3, <2>4 DEF PermitsCounted
<1>3. TypeOK'
  BY <1>1, <1>2 DEF TypeOK, threadVars
<1>4. (OneConsumer /\ HandRuns)'
  BY <1>1 DEF TypeOK, OneConsumer, HandRuns, threadVars
<1>5. WorkersRun'
  BY <1>1 DEF TypeOK, WorkersRun
<1> QED
  BY <1>2, <1>3, <1>4, <1>5

-----------------------------------------------------------------------------
LEMMA NextInvariant == QueueInvariant /\ [Next]_vars => QueueInvariant'
<1> SUFFICES ASSUME QueueInvariant, [Next]_vars
             PROVE  QueueInvariant'
  OBVIOUS
<1>1. CASE Client
  BY <1>1, ClientStep
<1>2. ASSUME NEW c \in Consumer, Loop(c)
      PROVE  QueueInvariant'
  BY <1>2, ExitStep, DequeueStep, DequeueNothingStep, DispatchStep, NoWorkerStep,
     RequeueStep DEF Loop
<1>3. ASSUME NEW t \in Task, Work(t)
      PROVE  QueueInvariant'
  BY <1>3, SettleStep, ReleaseStep DEF Work
<1>4. CASE UNCHANGED vars
  BY <1>4 DEF vars, threadVars, QueueInvariant, TypeOK, OneConsumer, HandRuns, WorkersRun,
     PermitsCounted, Working
<1> QED
  BY <1>1, <1>2, <1>3, <1>4 DEF Next

LEMMA Invariance == Spec => []QueueInvariant
<1> QED
  BY InitInvariant, NextInvariant, PTL DEF Spec

(* Whatever clients, consumers and workers do, the queue's state is of its *)
(* type.                                                                   *)
THEOREM TypeCorrect == Spec => []TypeOK
<1>1. QueueInvariant => TypeOK
  BY DEF QueueInvariant
<1> QED
  BY <1>1, Invariance, PTL

(* A permit of the semaphore is out for each worker thread that has not    *)
(* ended, for any number of workers: none leaks, none is released twice.   *)
THEOREM PermitsAccounted == Spec => []PermitsMatchWorkers
<1>1. QueueInvariant => PermitsMatchWorkers
  BY DEF QueueInvariant, PermitsCounted, PermitsMatchWorkers, Working
<1> QED
  BY <1>1, Invariance, PTL

(* No step of a client, a consumer or a worker changes the outcome of a    *)
(* task that is over: only cleanup drops its record.                       *)
THEOREM OutcomesStand == Spec => OutcomeStands
<1> DEFINE Stands == \A t \in Task : status[t] \in Terminal => status'[t] \in {status[t], "gone"}
<1>1. QueueInvariant /\ [Next]_vars => [Stands]_vars
  <2> SUFFICES ASSUME QueueInvariant, Next, NEW u \in Task, status[u] \in Terminal
               PROVE  status'[u] \in {status[u], "gone"}
    OBVIOUS
  <2> USE DEF QueueInvariant, TypeOK
  <2>1. CASE Client
    BY <2>1 DEF Client, Enqueue, Cancel, MayCancel, Cleanup, StartConsumer, StopConsumer, Terminal
  <2>2. ASSUME NEW c \in Consumer, Loop(c)
        PROVE  status'[u] \in {status[u], "gone"}
    <3>1. CASE Dequeue(c)
      <4>1. PICK t \in Task : status[t] = "pending" /\ status' = [status EXCEPT ![t] = "running"]
        BY <3>1, DequeueTakesPending DEF Dequeue
      <4> QED
        BY <4>1 DEF Terminal
    <3>2. CASE Requeue(c)
      <4>1. PICK t \in Task : status[t] = "running" /\ status' = [status EXCEPT ![t] = "pending"]
        BY <3>2 DEF Requeue, Goto, HandRuns
      <4> QED
        BY <4>1 DEF Terminal
    <3>3. CASE Exit(c) \/ DequeueNothing(c) \/ Dispatch(c) \/ NoWorker(c)
      BY <3>3 DEF Exit, DequeueNothing, Dispatch, NoWorker
    <3> QED
      BY <2>2, <3>1, <3>2, <3>3 DEF Loop
  <2>3. ASSUME NEW t \in Task, Work(t)
        PROVE  status'[u] \in {status[u], "gone"}
    <3>1. CASE Settle(t)
      BY <3>1 DEF Settle, WorkersRun, Terminal
    <3>2. CASE Release(t)
      BY <3>2 DEF Release
    <3> QED
      BY <2>3, <3>1, <3>2 DEF Work
  <2> QED
    BY <2>1, <2>2, <2>3 DEF Next
<1> QED
  BY <1>1, Invariance, PTL DEF Spec, OutcomeStands

-----------------------------------------------------------------------------
(* The refinement: each step of the queue is a step of JobQueue or leaves  *)
(* what has become of each job as it is.                                   *)
Mapped == [t \in Task |-> JobState(t)]

LEMMA OneJobMoves ==
  ASSUME NEW t \in Task, NEW from, NEW to, JobState(t) = from, JobState(t)' = to,
         \A u \in Task \ {t} : JobState(u)' = JobState(u)
  PROVE  Jobs!Become(t, from, to)
BY DEF Jobs!Become

LEMMA NoJobMoves ==
  ASSUME \A u \in Task : JobState(u)' = JobState(u)
  PROVE  UNCHANGED Mapped
BY DEF Mapped

(* A worker thread starts: fewer than MaxWorkers jobs run, for a permit is *)
(* free.                                                                   *)
LEMMA RunningJobsAreWorking ==
  ASSUME QueueInvariant
  PROVE  /\ IsFiniteSet(Jobs!Jobs("running"))
         /\ Cardinality(Jobs!Jobs("running")) + permits <= MaxWorkers
<1>1. Jobs!Jobs("running") \subseteq Working
  BY DEF Jobs!Jobs, JobState, QueueInvariant, TypeOK, WorkersRun, Working, Terminal
<1>2. IsFiniteSet(Working) /\ permits + Cardinality(Working) = MaxWorkers
  BY DEF QueueInvariant, PermitsCounted
<1>3. /\ IsFiniteSet(Jobs!Jobs("running"))
      /\ Cardinality(Jobs!Jobs("running")) <= Cardinality(Working)
  BY <1>1, <1>2, FS_Subset
<1>4. /\ permits \in Nat /\ Cardinality(Working) \in Nat
      /\ Cardinality(Jobs!Jobs("running")) \in Nat
  BY <1>2, <1>3, FS_CardinalityType DEF QueueInvariant, TypeOK
<1> HIDE DEF Working
<1> QED
  BY <1>2, <1>3, <1>4

LEMMA SameCardinality ==
  ASSUME NEW S
  PROVE  Jobs!Cardinality(S) = Cardinality(S)
BY Zenon DEF Jobs!Cardinality, Cardinality

LEMMA ClientRefines ==
  ASSUME QueueInvariant, Client
  PROVE  [Jobs!Next]_Mapped
<1> USE DEF QueueInvariant, TypeOK
<1>1. ASSUME NEW t \in Task, Enqueue(t)
      PROVE  Jobs!Submit(t)
  <2>1. JobState(t) = "unknown" /\ JobState(t)' = "waiting"
    BY <1>1 DEF Enqueue, JobState
  <2>2. \A u \in Task \ {t} : JobState(u)' = JobState(u)
    BY <1>1 DEF Enqueue, JobState
  <2> QED
    BY <2>1, <2>2, OneJobMoves DEF Jobs!Submit
<1>2. ASSUME NEW t \in Task, Cancel(t)
      PROVE  Jobs!Cancel(t)
  <2>1. JobState(t) = "waiting" /\ JobState(t)' = "cancelled"
    BY <1>2 DEF Cancel, MayCancel, JobState
  <2>2. \A u \in Task \ {t} : JobState(u)' = JobState(u)
    BY <1>2 DEF Cancel, JobState
  <2> QED
    BY <2>1, <2>2, OneJobMoves DEF Jobs!Cancel
<1>3. ASSUME NEW t \in Task, Cleanup(t)
      PROVE  Jobs!Drop(t)
  <2>1. JobState(t) \in {"ended", "cancelled"} /\ JobState(t)' = "dropped"
    BY <1>3 DEF Cleanup, Terminal, JobState
  <2>2. \A u \in Task \ {t} : JobState(u)' = JobState(u)
    BY <1>3 DEF Cleanup, JobState
  <2> QED
    BY <2>1, <2>2, OneJobMoves DEF Jobs!Drop
<1>4. ASSUME (\E c \in Consumer : StartConsumer(c)) \/ StopConsumer
      PROVE  UNCHANGED Mapped
  <2>1. UNCHANGED <<status, worker>>
    BY <1>4 DEF StartConsumer, StopConsumer
  <2> QED
    BY <2>1, NoJobMoves DEF JobState
<1> QED
  BY <1>1, <1>2, <1>3, <1>4 DEF Client, Jobs!Next

LEMMA LoopRefines ==
  ASSUME QueueInvariant, NEW c \in Consumer, Loop(c)
  PROVE  [Jobs!Next]_Mapped
<1> USE DEF QueueInvariant, TypeOK
<1>1. CASE Dispatch(c)
  <2>1. PICK t \in Task : /\ hand[c] = t
                          /\ status[t] = "running" /\ worker[t] = "none"
    BY <1>1 DEF Dispatch, Goto, HandRuns
  <2>2. permits > 0 /\ status' = status /\ worker' = [worker EXCEPT ![t] = "running"]
    BY <1>1, <2>1 DEF Dispatch
  <2>3. JobState(t) = "waiting" /\ JobState(t)' = "running"
    BY <2>1, <2>2 DEF JobState
  <2>4. \A u \in Task \ {t} : JobState(u)' = JobState(u)
    BY <2>2 DEF JobState
  <2>5. Jobs!Become(t, "waiting", "running")
    BY <2>3, <2>4, OneJobMoves
  <2>6. Jobs!Cardinality(Jobs!Jobs("running")) < MaxWorkers
    BY <2>2, RunningJobsAreWorking, SameCardinality, FS_CardinalityType
  <2> QED
    BY <2>5, <2>6 DEF Jobs!Start, Jobs!Next
<1>2. CASE Dequeue(c)
  <2>1. PICK t \in Task : /\ status[t] = "pending"
                          /\ status' = [status EXCEPT ![t] = "running"]
                          /\ worker' = worker
    BY <1>2, DequeueTakesPending DEF Dequeue
  <2>2. worker[t] = "none"
    BY <2>1 DEF WorkersRun
  <2> QED
    BY <2>1, <2>2, NoJobMoves DEF JobState
<1>3. CASE Requeue(c)
  <2>1. PICK t \in Task : /\ status[t] = "running" /\ worker[t] = "none"
                          /\ status' = [status EXCEPT ![t] = "pending"]
                          /\ worker' = worker
    BY <1>3 DEF Requeue, Goto, HandRuns
  <2> QED
    BY <2>1, NoJobMoves DEF JobState
<1>4. CASE Exit(c) \/ DequeueNothing(c) \/ NoWorker(c)
  <2>1. UNCHANGED <<status, worker>>
    BY <1>4 DEF Exit, DequeueNothing, NoWorker
  <2> QED
    BY <2>1, NoJobMoves DEF JobState
<1> QED
  BY <1>1, <1>2, <1>3, <1>4 DEF Loop

LEMMA WorkRefines ==
  ASSUME QueueInvariant, NEW t \in Task, Work(t)
  PROVE  [Jobs!Next]_Mapped
<1> USE DEF QueueInvariant, TypeOK
<1>1. CASE Settle(t)
  <2>1. JobState(t) = "running" /\ JobState(t)' = "ended"
    BY <1>1 DEF Settle, WorkersRun, JobState
  <2>2. \A u \in Task \ {t} : JobState(u)' = JobState(u)
    BY <1>1 DEF Settle, JobState
  <2> QED
    BY <2>1, <2>2, OneJobMoves DEF Jobs!End, Jobs!Next
<1>2. CASE Release(t)
  <2>1. status' = status /\ worker[t] = "settled" /\ worker' = [worker EXCEPT ![t] = "ended"]
    BY <1>2 DEF Release
  <2>2. \A u \in Task : JobState(u)' = JobState(u)
    BY <2>1 DEF JobState
  <2> QED
    BY <2>2, NoJobMoves
<1> QED
  BY <1>1, <1>2 DEF Work

(* The queue implements JobQueue: for any number of tasks, workers and     *)
(* consumer threads a task starts at most once, never after it was         *)
(* cancelled, and no more than MaxWorkers of them run.                     *)
THEOREM Refinement == Spec => ImplementsJobQueue
<1>1. Init => Jobs!Init
  BY DEF Init, Jobs!Init, JobState
<1>2. QueueInvariant /\ [Next]_vars => [Jobs!Next]_Mapped
  <2> SUFFICES ASSUME QueueInvariant, [Next]_vars
               PROVE  [Jobs!Next]_Mapped
    OBVIOUS
  <2>1. CASE UNCHANGED vars
    <3>1. UNCHANGED <<status, worker>>
      BY <2>1 DEF vars
    <3> QED
      BY <3>1, NoJobMoves DEF JobState
  <2> QED
    BY <2>1, ClientRefines, LoopRefines, WorkRefines DEF Next
<1> QED
  BY <1>1, <1>2, Invariance, PTL DEF Spec, ImplementsJobQueue, Jobs!Spec, Mapped

-----------------------------------------------------------------------------
(* Where the tasks are: none is lost, and none is taken twice.  A task is  *)
(* at most once in the queues, a pending one is in them, one that is new   *)
(* or runs is not, and a running one without a worker is in the hand of a  *)
(* consumer.                                                               *)

At(t, p, i) == p \in Priority /\ i \in 1..Len(queue[p]) /\ queue[p][i] = t

OncePlaced ==
  \A t \in Task, p, q \in Priority, i, j \in Nat : At(t, p, i) /\ At(t, q, j) => p = q /\ i = j

OnlyWaitingPlaced ==
  \A t \in Task, p \in Priority, i \in Nat : At(t, p, i) => status[t] \notin {"new", "running"}

PendingPlaced ==
  \A t \in Task : status[t] = "pending" => \E p \in Priority, i \in Nat : At(t, p, i)

HandsHold ==
  /\ \A c \in Consumer : pc[c] \notin {"acquire", "requeue"} => hand[c] = NoTask
  /\ \A t \in Task : status[t] = "running" /\ worker[t] = "none" => \E c \in Consumer : hand[c] = t

PlacesInvariant == OncePlaced /\ OnlyWaitingPlaced /\ PendingPlaced /\ HandsHold

-----------------------------------------------------------------------------
(* First is the smallest. *)
LEMMA FirstIsLeast ==
  ASSUME NEW S \in SUBSET Nat, NEW x \in S
  PROVE  First(S) <= x
<1> DEFINE R == {ss \in Nat \X Nat : ss[1] < ss[2]}
<1>2. IsWellFoundedOn(R, Nat)
  BY NatLessThanWellFounded DEF OpToRel
<1>3. PICK y \in S : \A z \in S : ~ (<<z, y>> \in R)
  <2> HIDE DEF R
  <2> QED
    BY <1>2, WFMin
<1>4. ASSUME NEW z \in S
      PROVE  y <= z
  <2>1. y \in Nat /\ z \in Nat /\ ~ (<<z, y>> \in R)
    BY <1>3
  <2>2. z < y => <<z, y>> \in R
    BY <2>1
  <2> HIDE DEF R
  <2> QED
    BY <2>1, <2>2
<1> QED
  BY <1>3, <1>4 DEF First

(* As long as the queues and the statuses that matter stay, so do places.  *)
LEMMA SamePlaces ==
  ASSUME PlacesInvariant, UNCHANGED queue,
         \A t \in Task : status'[t] \in {"new", "running"} => status[t] \in {"new", "running"},
         \A t \in Task : status'[t] = "pending" => status[t] = "pending"
  PROVE  (OncePlaced /\ OnlyWaitingPlaced /\ PendingPlaced)'
<1>1. \A t, p, i : At(t, p, i)' <=> At(t, p, i)
  BY DEF At
<1> QED
  BY <1>1 DEF PlacesInvariant, OncePlaced, OnlyWaitingPlaced, PendingPlaced

(* And so do the hands. *)
LEMMA SameHands ==
  ASSUME HandsHold, UNCHANGED hand,
         \A c \in Consumer : pc'[c] \notin {"acquire", "requeue"} =>
                                pc[c] \notin {"acquire", "requeue"},
         \A t \in Task : status'[t] = "running" /\ worker'[t] = "none" =>
                            status[t] = "running" /\ worker[t] = "none"
  PROVE  HandsHold'
BY DEF HandsHold

-----------------------------------------------------------------------------
LEMMA PlacesInit == Init => PlacesInvariant
<1> SUFFICES ASSUME Init PROVE PlacesInvariant
  OBVIOUS
<1>1. \A t \in Task, p \in Priority, i \in Nat : ~ At(t, p, i)
  <2>1. \A p \in Priority : queue[p] = <<>>
    BY DEF Init
  <2>2. \A p \in Priority : 1..Len(queue[p]) = {}
    BY <2>1
  <2> QED
    BY <2>2 DEF At
<1>2. HandsHold
  BY DEF Init, HandsHold
<1> QED
  BY <1>1, <1>2 DEF Init, PlacesInvariant, OncePlaced, OnlyWaitingPlaced, PendingPlaced

(* enqueue adds one place, at the end of the queue of the task. *)
LEMMA EnqueueMoves ==
  ASSUME QueueInvariant, NEW t \in Task, Enqueue(t)
  PROVE  \E r \in Priority, n \in Nat :
           /\ r = PriorityOf[t] /\ n = Len(queue[r]) + 1
           /\ \A u \in Task, p \in Priority, i \in Nat :
                At(u, p, i)' <=> At(u, p, i) \/ (u = t /\ p = r /\ i = n)
<1> USE DEF QueueInvariant
<1>0. PICK r, n : r = PriorityOf[t] /\ n = Len(queue[r]) + 1
  OBVIOUS
<1>1. r \in Priority /\ queue[r] \in Seq(Task)
  BY <1>0 DEF TypeOK
<1>2. queue' = [queue EXCEPT ![r] = Append(@, t)]
  BY <1>0 DEF Enqueue
<1>3. /\ Len(queue'[r]) = n /\ n \in Nat /\ n \in 1..n
      /\ queue'[r][n] = t
      /\ \A i \in 1..Len(queue[r]) : queue'[r][i] = queue[r][i]
  BY <1>0, <1>1, <1>2 DEF TypeOK
<1>4. \A p \in Priority : p # r => queue'[p] = queue[p]
  BY <1>2 DEF TypeOK
<1>5. ASSUME NEW u \in Task, NEW p \in Priority, NEW i \in Nat
      PROVE  At(u, p, i)' <=> At(u, p, i) \/ (u = t /\ p = r /\ i = n)
  <2>1. CASE p = r
    BY <2>1, <1>0, <1>1, <1>3 DEF At
  <2>2. CASE p # r
    BY <2>2, <1>4 DEF At
  <2> QED
    BY <2>1, <2>2
<1>6. r \in Priority /\ n \in Nat
  BY <1>1, <1>3
<1>7. /\ r = PriorityOf[t] /\ n = Len(queue[r]) + 1
      /\ \A u \in Task, p \in Priority, i \in Nat :
           At(u, p, i)' <=> At(u, p, i) \/ (u = t /\ p = r /\ i = n)
  BY <1>0, <1>5
<1> QED
  BY <1>6, <1>7

LEMMA PlacesEnqueue ==
  ASSUME QueueInvariant, PlacesInvariant, NEW t \in Task, Enqueue(t)
  PROVE  PlacesInvariant'
<1> USE DEF QueueInvariant, PlacesInvariant
<1>1. status[t] = "new" /\ worker[t] = "none"
  BY DEF Enqueue, WorkersRun
<1>2. status' = [status EXCEPT ![t] = "pending"] /\ UNCHANGED <<pc, hand, worker>>
  BY DEF Enqueue, threadVars
<1>3. PICK r \in Priority, n \in Nat :
        /\ r = PriorityOf[t] /\ n = Len(queue[r]) + 1
        /\ \A u \in Task, p \in Priority, i \in Nat :
             At(u, p, i)' <=> At(u, p, i) \/ (u = t /\ p = r /\ i = n)
  BY EnqueueMoves
<1>4. \A p \in Priority, i \in Nat : ~ At(t, p, i)
  BY <1>1 DEF OnlyWaitingPlaced
<1>5. OncePlaced'
  BY <1>3, <1>4 DEF OncePlaced
<1>6. OnlyWaitingPlaced'
  BY <1>1, <1>2, <1>3 DEF OnlyWaitingPlaced, TypeOK
<1>7. PendingPlaced'
  <2>1. At(t, r, n)'
    BY <1>3
  <2>2. \A u \in Task \ {t} : status'[u] = status[u]
    BY <1>2 DEF TypeOK
  <2> QED
    BY <2>1, <2>2, <1>3 DEF PendingPlaced
<1>8. HandsHold'
  BY <1>1, <1>2 DEF HandsHold, TypeOK
<1> QED
  BY <1>5, <1>6, <1>7, <1>8

(* What dequeue drops and what is before the task it takes is not pending. *)
LEMMA DequeueTakesFirst ==
  ASSUME TypeOK, Urgent # {}
  PROVE  LET p == First(Urgent)
             i == First(PendingAt(queue[p]))
         IN /\ \A x \in Priority : x < p => PendingAt(queue[x]) = {}
            /\ \A j \in PendingAt(queue[p]) : i <= j
<1> DEFINE p == First(Urgent)
<1>1. Urgent \in SUBSET Nat
  BY DEF Urgent
<1>2. p \in Priority
  BY DequeueTakesPending
<1>3. PendingAt(queue[p]) \in SUBSET Nat
  BY DEF PendingAt
<1>4. ASSUME NEW x \in Priority, x < p
      PROVE  PendingAt(queue[x]) = {}
  <2>1. x \in Urgent => p <= x
    BY <1>1, FirstIsLeast
  <2>2. x \notin Urgent
    <3> HIDE DEF p
    <3> QED
      BY <2>1, <1>2, <1>4
  <2> QED
    BY <2>2 DEF Urgent
<1> QED
  BY <1>3, <1>4, FirstIsLeast

(* dequeue takes the place of the task and those in front of it away. *)
LEMMA DequeueMoves ==
  ASSUME QueueInvariant, NEW c \in Consumer, Dequeue(c)
  PROVE  \E p \in Priority, i \in Nat, t \in Task :
           /\ pc[c] = "loop" /\ i > 0 /\ At(t, p, i)
           /\ status[t] = "pending" /\ worker[t] = "none"
           /\ \A x \in Priority : x < p => PendingAt(queue[x]) = {}
           /\ \A j \in PendingAt(queue[p]) : i <= j
           /\ pc' = [pc EXCEPT ![c] = "acquire"]
           /\ status' = [status EXCEPT ![t] = "running"]
           /\ hand' = [hand EXCEPT ![c] = t]
           /\ UNCHANGED <<worker, arrived>>
           /\ \A u \in Task, q \in Priority, k \in Nat :
                At(u, q, k)' <=> (q > p /\ At(u, q, k)) \/ (q = p /\ k > 0 /\ At(u, p, k + i))
<1> USE DEF QueueInvariant
<1>1. Urgent # {} /\ pc[c] = "loop"
  BY DEF Dequeue, Goto
<1>0. PICK p, i, t : p = First(Urgent) /\ i = First(PendingAt(queue[p])) /\ t = queue[p][i]
  OBVIOUS
<1>2. /\ p \in Priority /\ i \in 1..Len(queue[p]) /\ t \in Task
      /\ status[t] = "pending" /\ worker[t] = "none"
  BY <1>0, <1>1, DequeueTakesPending DEF WorkersRun
<1>3. /\ \A x \in Priority : x < p => PendingAt(queue[x]) = {}
      /\ \A j \in PendingAt(queue[p]) : i <= j
  BY <1>0, <1>1, DequeueTakesFirst
<1>4. /\ pc' = [pc EXCEPT ![c] = "acquire"]
      /\ status' = [status EXCEPT ![t] = "running"]
      /\ hand' = [hand EXCEPT ![c] = t]
      /\ UNCHANGED <<worker, arrived>>
  BY <1>0 DEF Dequeue, Goto
<1>5. queue' = [x \in Priority |-> CASE x < p -> <<>>
                                    [] x = p -> Behind(queue[p])
                                    [] OTHER -> queue[x]]
  BY <1>0 DEF Dequeue
<1>6. Behind(queue[p]) = SubSeq(queue[p], i + 1, Len(queue[p]))
  BY <1>0 DEF Behind
<1>7. queue[p] \in Seq(Task) /\ i \in Nat \ {0} /\ Len(queue[p]) \in Nat
  <2>1. queue[p] \in Seq(Task)
    BY <1>2 DEF TypeOK
  <2> QED
    BY <2>1, <1>2
<1>8. At(t, p, i)
  BY <1>0, <1>2 DEF At
<1>9. /\ Len(Behind(queue[p])) = Len(queue[p]) - i
      /\ \A k \in 1..(Len(queue[p]) - i) : Behind(queue[p])[k] = queue[p][k + i]
  BY <1>2, <1>6, <1>7
<1>10. ASSUME NEW u \in Task, NEW q \in Priority, NEW k \in Nat
       PROVE  At(u, q, k)' <=> (q > p /\ At(u, q, k)) \/ (q = p /\ k > 0 /\ At(u, p, k + i))
  <2>1. CASE q < p
    <3>1. queue'[q] = <<>>
      BY <1>5, <2>1
    <3>2. 1..Len(queue'[q]) = {}
      BY <3>1
    <3>3. ~ At(u, q, k)'
      BY <3>2 DEF At
    <3>4. ~ (q > p) /\ q # p
      BY <2>1, <1>2
    <3> QED
      BY <3>3, <3>4
  <2>2. CASE q = p
    <3>1. queue'[q] = Behind(queue[p])
      BY <1>5, <2>2, <1>2
    <3>2. At(u, q, k)' <=> k \in 1..(Len(queue[p]) - i) /\ queue[p][k + i] = u
      BY <3>1, <1>9 DEF At
    <3>3. k \in 1..(Len(queue[p]) - i) <=> k > 0 /\ k + i \in 1..Len(queue[p])
      BY <1>7
    <3>4. At(u, q, k)' <=> k > 0 /\ At(u, p, k + i)
      BY <3>2, <3>3, <1>2 DEF At
    <3>5. ~ (q > p)
      BY <2>2, <1>2
    <3> QED
      BY <3>4, <3>5, <2>2
  <2>3. CASE q > p
    <3>1. queue'[q] = queue[q]
      BY <1>5, <2>3, <1>2
    <3> QED
      BY <3>1, <2>3, <1>2 DEF At
  <2> QED
    BY <2>1, <2>2, <2>3, <1>2
<1>11. p \in Priority /\ i \in Nat /\ t \in Task
  BY <1>2, <1>7
<1>12. /\ pc[c] = "loop" /\ i > 0 /\ At(t, p, i)
       /\ status[t] = "pending" /\ worker[t] = "none"
       /\ \A x \in Priority : x < p => PendingAt(queue[x]) = {}
       /\ \A j \in PendingAt(queue[p]) : i <= j
       /\ pc' = [pc EXCEPT ![c] = "acquire"]
       /\ status' = [status EXCEPT ![t] = "running"]
       /\ hand' = [hand EXCEPT ![c] = t]
       /\ UNCHANGED <<worker, arrived>>
       /\ \A u \in Task, q \in Priority, k \in Nat :
            At(u, q, k)' <=> (q > p /\ At(u, q, k)) \/ (q = p /\ k > 0 /\ At(u, p, k + i))
  <2>1. i > 0
    BY <1>7
  <2> QED
    BY <2>1, <1>1, <1>2, <1>3, <1>4, <1>8, <1>10
<1> QED
  BY <1>11, <1>12

LEMMA PlacesDequeue ==
  ASSUME QueueInvariant, PlacesInvariant, NEW c \in Consumer, Dequeue(c)
  PROVE  PlacesInvariant'
<1> USE DEF QueueInvariant, PlacesInvariant
<1>0. PICK p \in Priority, i \in Nat, t \in Task :
        /\ pc[c] = "loop" /\ i > 0 /\ At(t, p, i)
        /\ status[t] = "pending" /\ worker[t] = "none"
        /\ \A x \in Priority : x < p => PendingAt(queue[x]) = {}
        /\ \A j \in PendingAt(queue[p]) : i <= j
        /\ pc' = [pc EXCEPT ![c] = "acquire"]
        /\ status' = [status EXCEPT ![t] = "running"]
        /\ hand' = [hand EXCEPT ![c] = t]
        /\ UNCHANGED <<worker, arrived>>
        /\ \A u \in Task, q \in Priority, k \in Nat :
             At(u, q, k)' <=> (q > p /\ At(u, q, k)) \/ (q = p /\ k > 0 /\ At(u, p, k + i))
  BY DequeueMoves
<1>1. pc[c] = "loop"
  BY <1>0
<1>2. p \in Priority /\ t \in Task /\ status[t] = "pending" /\ worker[t] = "none"
  BY <1>0
<1>3. /\ \A x \in Priority : x < p => PendingAt(queue[x]) = {}
      /\ \A j \in PendingAt(queue[p]) : i <= j
  BY <1>0
<1>4. /\ pc' = [pc EXCEPT ![c] = "acquire"]
      /\ status' = [status EXCEPT ![t] = "running"]
      /\ hand' = [hand EXCEPT ![c] = t]
      /\ worker' = worker
  BY <1>0
<1>7. i \in Nat \ {0}
  BY <1>0
<1>8. At(t, p, i)
  BY <1>0
<1>10. \A u \in Task, q \in Priority, k \in Nat :
         At(u, q, k)' <=> (q > p /\ At(u, q, k)) \/ (q = p /\ k > 0 /\ At(u, p, k + i))
  BY <1>0
<1>11. OncePlaced'
  <2> SUFFICES ASSUME NEW u \in Task, NEW q1 \in Priority, NEW q2 \in Priority,
                      NEW k1 \in Nat, NEW k2 \in Nat, At(u, q1, k1)', At(u, q2, k2)'
               PROVE  q1 = q2 /\ k1 = k2
    BY DEF OncePlaced
  <2>1. k1 + i \in Nat /\ k2 + i \in Nat
    BY <1>7
  <2>2. /\ (q1 > p /\ At(u, q1, k1)) \/ (q1 = p /\ At(u, p, k1 + i))
        /\ (q2 > p /\ At(u, q2, k2)) \/ (q2 = p /\ At(u, p, k2 + i))
    BY <1>10
  <2>3. CASE q1 = p /\ q2 = p
    <3>1. ~ (q1 > p) /\ ~ (q2 > p)
      BY <2>3
    <3>2. At(u, p, k1 + i) /\ At(u, p, k2 + i)
      BY <3>1, <2>2
    <3>3. k1 + i = k2 + i
      BY <3>2, <2>1 DEF OncePlaced
    <3> QED
      BY <3>3, <2>3, <1>7
  <2>4. CASE q1 # p /\ q2 # p
    BY <2>2, <2>4 DEF OncePlaced
  <2>5. CASE q1 = p /\ q2 # p
    BY <2>1, <2>2, <2>5, <1>2 DEF OncePlaced
  <2>6. CASE q1 # p /\ q2 = p
    BY <2>1, <2>2, <2>6, <1>2 DEF OncePlaced
  <2> QED
    BY <2>3, <2>4, <2>5, <2>6
<1>12. ASSUME NEW u \in Task, NEW q \in Priority, NEW k \in Nat, At(u, q, k)'
       PROVE  u # t /\ status[u] \notin {"new", "running"}
  <2>1. k + i \in Nat /\ (k > 0 => k + i # i)
    BY <1>7
  <2>2. CASE q > p /\ At(u, q, k)
    <3>1. q # p
      BY <2>2, <1>2
    <3> QED
      BY <2>2, <3>1, <1>2, <1>7, <1>8 DEF OncePlaced, OnlyWaitingPlaced
  <2>3. CASE k > 0 /\ At(u, p, k + i)
    BY <2>1, <2>3, <1>2, <1>7, <1>8 DEF OncePlaced, OnlyWaitingPlaced
  <2> QED
    BY <2>2, <2>3, <1>10, <1>12
<1>13. OnlyWaitingPlaced'
  BY <1>4, <1>12 DEF OnlyWaitingPlaced, TypeOK
<1>14. PendingPlaced'
  <2> SUFFICES ASSUME NEW u \in Task, status'[u] = "pending"
               PROVE  \E q \in Priority, k \in Nat : At(u, q, k)'
    BY DEF PendingPlaced
  <2>1. u # t /\ status[u] = "pending"
    BY <1>2, <1>4 DEF TypeOK
  <2>2. PICK q \in Priority, k \in Nat : At(u, q, k)
    BY <2>1 DEF PendingPlaced
  <2>3. k \in PendingAt(queue[q])
    BY <2>1, <2>2 DEF At, PendingAt
  <2>4. q = p \/ q > p
    <3>1. ~ (q < p)
      BY <2>3, <1>3
    <3>2. q \in Int /\ p \in Int
      OBVIOUS
    <3> QED
      BY <3>1, <3>2
  <2>5. CASE q = p
    <3>1. k >= i
      BY <2>3, <2>5, <1>3
    <3>2. k # i
      BY <2>1, <2>2, <2>5, <1>8 DEF At
    <3>3. k - i \in Nat /\ k - i > 0 /\ (k - i) + i = k
      BY <3>1, <3>2, <1>7
    <3>4. At(u, p, k - i)'
      BY <3>3, <2>2, <2>5, <1>2, <1>10
    <3> QED
      BY <3>3, <3>4, <1>2
  <2>6. CASE q > p
    BY <2>2, <2>6, <1>10
  <2> QED
    BY <2>4, <2>5, <2>6, <1>2
<1>15. HandsHold'
  <2>1. hand[c] = NoTask
    BY <1>1 DEF HandsHold
  <2> QED
    BY <2>1, <1>1, <1>2, <1>4 DEF HandsHold, TypeOK
<1> QED
  BY <1>11, <1>13, <1>14, <1>15

LEMMA PlacesDequeueNothing ==
  ASSUME QueueInvariant, PlacesInvariant, NEW c \in Consumer, DequeueNothing(c)
  PROVE  PlacesInvariant'
<1> USE DEF QueueInvariant, PlacesInvariant
<1>1. \A u \in Task : status[u] # "pending"
  <2> SUFFICES ASSUME NEW u \in Task, status[u] = "pending"
               PROVE  FALSE
    OBVIOUS
  <2>1. PICK q \in Priority, k \in Nat : At(u, q, k)
    BY DEF PendingPlaced
  <2>2. k \in PendingAt(queue[q])
    BY <2>1 DEF At, PendingAt
  <2> QED
    BY <2>2 DEF DequeueNothing, Urgent
<1>2. UNCHANGED <<status, pc, hand, worker>>
  BY DEF DequeueNothing, threadVars
<1>3. \A u \in Task, q \in Priority, k \in Nat : ~ At(u, q, k)'
  <2>1. \A q \in Priority : queue'[q] = <<>>
    BY DEF DequeueNothing
  <2>2. \A q \in Priority : 1..Len(queue'[q]) = {}
    BY <2>1
  <2> QED
    BY <2>2 DEF At
<1>4. HandsHold'
  BY <1>2, SameHands
<1> QED
  BY <1>1, <1>2, <1>3, <1>4 DEF OncePlaced, OnlyWaitingPlaced, PendingPlaced

(* A task that goes back to the front shifts those that are there.         *)
LEMMA RequeueMoves ==
  ASSUME QueueInvariant, NEW c \in Consumer, Requeue(c)
  PROVE  \E t \in Task, r \in Priority :
           /\ t = hand[c] /\ r = PriorityOf[t]
           /\ pc[c] = "requeue" /\ status[t] = "running" /\ worker[t] = "none"
           /\ pc' = [pc EXCEPT ![c] = "loop"]
           /\ status' = [status EXCEPT ![t] = "pending"]
           /\ hand' = [hand EXCEPT ![c] = NoTask]
           /\ UNCHANGED <<worker, arrived>>
           /\ \A u \in Task, q \in Priority, k \in Nat :
                At(u, q, k)' <=> \/ q # r /\ At(u, q, k)
                                 \/ q = r /\ k = 1 /\ u = t
                                 \/ q = r /\ k > 1 /\ At(u, r, k - 1)
<1> USE DEF QueueInvariant
<1> DEFINE Requeued(t, r) ==
             /\ t = hand[c] /\ r = PriorityOf[t]
             /\ pc[c] = "requeue" /\ status[t] = "running" /\ worker[t] = "none"
             /\ pc' = [pc EXCEPT ![c] = "loop"]
             /\ status' = [status EXCEPT ![t] = "pending"]
             /\ hand' = [hand EXCEPT ![c] = NoTask]
             /\ UNCHANGED <<worker, arrived>>
             /\ \A u \in Task, q \in Priority, k \in Nat :
                  At(u, q, k)' <=> \/ q # r /\ At(u, q, k)
                                   \/ q = r /\ k = 1 /\ u = t
                                   \/ q = r /\ k > 1 /\ At(u, r, k - 1)
<1>0. PICK t, r : t = hand[c] /\ r = PriorityOf[t]
  OBVIOUS
<1>1. pc[c] = "requeue" /\ t \in Task /\ status[t] = "running" /\ worker[t] = "none"
  BY <1>0 DEF Requeue, Goto, HandRuns
<1>2. /\ pc' = [pc EXCEPT ![c] = "loop"]
      /\ status' = [status EXCEPT ![t] = "pending"]
      /\ queue' = [queue EXCEPT ![r] = PutBack(@, t)]
      /\ hand' = [hand EXCEPT ![c] = NoTask]
      /\ UNCHANGED <<worker, arrived>>
  BY <1>0 DEF Requeue, Goto
<1>3. r \in Priority /\ queue[r] \in Seq(Task) /\ Len(queue[r]) \in Nat
  <2>1. r \in Priority /\ queue[r] \in Seq(Task)
    BY <1>0, <1>1 DEF TypeOK
  <2> QED
    BY <2>1
<1>5. queue'[r] = <<t>> \o queue[r]
  BY <1>2, <1>3 DEF PutBack, TypeOK
<1>6. /\ Len(queue'[r]) = Len(queue[r]) + 1
      /\ queue'[r][1] = t
      /\ \A k \in 1..Len(queue[r]) : queue'[r][k + 1] = queue[r][k]
  BY <1>1, <1>3, <1>5
<1>7. \A q \in Priority : q # r => queue'[q] = queue[q]
  BY <1>2 DEF TypeOK
<1>8. ASSUME NEW u \in Task, NEW q \in Priority, NEW k \in Nat
      PROVE  At(u, q, k)' <=> \/ q # r /\ At(u, q, k)
                              \/ q = r /\ k = 1 /\ u = t
                              \/ q = r /\ k > 1 /\ At(u, r, k - 1)
  <2>1. CASE q # r
    BY <2>1, <1>7 DEF At
  <2>2. CASE q = r /\ k = 0
    BY <2>2, <1>3, <1>6 DEF At
  <2>3. CASE q = r /\ k = 1
    BY <2>3, <1>3, <1>6 DEF At
  <2>4. CASE q = r /\ k > 1
    <3>1. k - 1 \in Nat /\ (k - 1) + 1 = k
      BY <2>4
    <3>2. k - 1 \in 1..Len(queue[r]) <=> k \in 1..Len(queue'[r])
      BY <2>4, <1>3, <1>6
    <3>3. k - 1 \in 1..Len(queue[r]) => queue'[r][k] = queue[r][k - 1]
      BY <3>1, <1>6
    <3> QED
      BY <2>4, <3>2, <3>3 DEF At
  <2> QED
    BY <2>1, <2>2, <2>3, <2>4
<1>9. t \in Task /\ r \in Priority
  BY <1>1, <1>3
<1>10. Requeued(t, r)
  BY <1>0, <1>1, <1>2, <1>8 DEF Requeued
<1>11. \E a \in Task, b \in Priority : Requeued(a, b)
  <2> HIDE DEF Requeued
  <2> QED
    BY <1>9, <1>10
<1> QED
  BY <1>11 DEF Requeued

LEMMA PlacesRequeue ==
  ASSUME QueueInvariant, PlacesInvariant, NEW c \in Consumer, Requeue(c)
  PROVE  PlacesInvariant'
<1> USE DEF QueueInvariant, PlacesInvariant
<1>0. PICK t \in Task, r \in Priority :
        /\ t = hand[c] /\ r = PriorityOf[t]
        /\ pc[c] = "requeue" /\ status[t] = "running" /\ worker[t] = "none"
        /\ pc' = [pc EXCEPT ![c] = "loop"]
        /\ status' = [status EXCEPT ![t] = "pending"]
        /\ hand' = [hand EXCEPT ![c] = NoTask]
        /\ UNCHANGED <<worker, arrived>>
        /\ \A u \in Task, q \in Priority, k \in Nat :
             At(u, q, k)' <=> \/ q # r /\ At(u, q, k)
                              \/ q = r /\ k = 1 /\ u = t
                              \/ q = r /\ k > 1 /\ At(u, r, k - 1)
  BY RequeueMoves
<1>1. pc[c] = "requeue" /\ t \in Task /\ status[t] = "running" /\ worker[t] = "none"
  BY <1>0
<1>2. /\ pc' = [pc EXCEPT ![c] = "loop"]
      /\ status' = [status EXCEPT ![t] = "pending"]
      /\ hand' = [hand EXCEPT ![c] = NoTask]
      /\ worker' = worker
  BY <1>0
<1>3. r \in Priority
  BY <1>0
<1>4. hand[c] = t
  BY <1>0
<1>8. \A u \in Task, q \in Priority, k \in Nat :
        At(u, q, k)' <=> \/ q # r /\ At(u, q, k)
                         \/ q = r /\ k = 1 /\ u = t
                         \/ q = r /\ k > 1 /\ At(u, r, k - 1)
  BY <1>0
<1>9. \A q \in Priority, k \in Nat : ~ At(t, q, k)
  BY <1>1 DEF OnlyWaitingPlaced
<1>10. OncePlaced'
  <2> SUFFICES ASSUME NEW u \in Task, NEW q1 \in Priority, NEW q2 \in Priority,
                      NEW k1 \in Nat, NEW k2 \in Nat, At(u, q1, k1)', At(u, q2, k2)'
               PROVE  q1 = q2 /\ k1 = k2
    BY DEF OncePlaced
  <2>1. CASE u = t
    <3>1. \A q \in Priority, k \in Nat : At(u, q, k)' => q = r /\ k = 1
      <4> SUFFICES ASSUME NEW q \in Priority, NEW k \in Nat, At(u, q, k)'
                   PROVE  q = r /\ k = 1
        OBVIOUS
      <4>1. k > 1 => k - 1 \in Nat
        OBVIOUS
      <4> QED
        BY <4>1, <2>1, <1>3, <1>8, <1>9
    <3> QED
      BY <3>1
  <2>2. CASE u # t
    <3>1. /\ (q1 # r /\ At(u, q1, k1)) \/ (q1 = r /\ k1 > 1 /\ At(u, r, k1 - 1))
          /\ (q2 # r /\ At(u, q2, k2)) \/ (q2 = r /\ k2 > 1 /\ At(u, r, k2 - 1))
      BY <2>2, <1>8
    <3>2. (k1 > 1 => k1 - 1 \in Nat) /\ (k2 > 1 => k2 - 1 \in Nat)
      OBVIOUS
    <3>3. CASE q1 = r /\ q2 = r
      <4>1. k1 - 1 = k2 - 1
        BY <3>1, <3>2, <3>3, <1>3 DEF OncePlaced
      <4> QED
        BY <4>1, <3>3
    <3>4. CASE q1 # r /\ q2 # r
      BY <3>1, <3>4 DEF OncePlaced
    <3>5. CASE q1 = r /\ q2 # r
      BY <3>1, <3>2, <3>5, <1>3 DEF OncePlaced
    <3>6. CASE q1 # r /\ q2 = r
      BY <3>1, <3>2, <3>6, <1>3 DEF OncePlaced
    <3> QED
      BY <3>3, <3>4, <3>5, <3>6
  <2> QED
    BY <2>1, <2>2
<1>11. OnlyWaitingPlaced'
  <2> SUFFICES ASSUME NEW u \in Task, NEW q \in Priority, NEW k \in Nat, At(u, q, k)'
               PROVE  status'[u] \notin {"new", "running"}
    BY DEF OnlyWaitingPlaced
  <2>1. CASE u = t
    BY <2>1, <1>2 DEF TypeOK
  <2>2. CASE u # t
    <3>1. k > 1 => k - 1 \in Nat
      OBVIOUS
    <3>2. status'[u] = status[u]
      BY <2>2, <1>2 DEF TypeOK
    <3> QED
      BY <3>1, <3>2, <2>2, <1>3, <1>8 DEF OnlyWaitingPlaced
  <2> QED
    BY <2>1, <2>2
<1>12. PendingPlaced'
  <2> SUFFICES ASSUME NEW u \in Task, status'[u] = "pending"
               PROVE  \E q \in Priority, k \in Nat : At(u, q, k)'
    BY DEF PendingPlaced
  <2>1. CASE u = t
    <3>1. At(u, r, 1)'
      BY <2>1, <1>8
    <3> QED
      BY <3>1
  <2>2. CASE u # t
    <3>1. status[u] = "pending"
      BY <2>2, <1>2 DEF TypeOK
    <3>2. PICK q \in Priority, k \in Nat : At(u, q, k)
      BY <3>1 DEF PendingPlaced
    <3>3. CASE q # r
      <4>1. At(u, q, k)'
        BY <3>2, <3>3, <1>8
      <4> QED
        BY <4>1
    <3>4. CASE q = r
      <4>1. k + 1 \in Nat /\ k + 1 > 1 /\ (k + 1) - 1 = k
        BY <3>2 DEF At
      <4>2. At(u, r, k + 1)'
        BY <4>1, <3>2, <3>4, <1>3, <1>8
      <4> QED
        BY <4>1, <4>2, <1>3
    <3> QED
      BY <3>3, <3>4
  <2> QED
    BY <2>1, <2>2
<1>13. HandsHold'
  BY <1>1, <1>2, <1>4 DEF HandsHold, TypeOK
<1> QED
  BY <1>10, <1>11, <1>12, <1>13

LEMMA PlacesDispatch ==
  ASSUME QueueInvariant, PlacesInvariant, NEW c \in Consumer, Dispatch(c)
  PROVE  PlacesInvariant'
<1> USE DEF QueueInvariant, PlacesInvariant
<1>0. PICK t : t = hand[c]
  OBVIOUS
<1>1. pc[c] = "acquire" /\ t \in Task /\ status[t] = "running" /\ worker[t] = "none"
  BY <1>0 DEF Dispatch, Goto, HandRuns
<1>2. /\ pc' = [pc EXCEPT ![c] = "loop"]
      /\ worker' = [worker EXCEPT ![t] = "running"]
      /\ hand' = [hand EXCEPT ![c] = NoTask]
      /\ UNCHANGED <<status, queue>>
  BY <1>0 DEF Dispatch, Goto
<1>3. hand[c] = t
  BY <1>0
<1>4. (OncePlaced /\ OnlyWaitingPlaced /\ PendingPlaced)'
  BY <1>2, SamePlaces
<1>5. HandsHold'
  BY <1>1, <1>2, <1>3 DEF HandsHold, TypeOK
<1> QED
  BY <1>4, <1>5

LEMMA PlacesElse ==
  ASSUME QueueInvariant, PlacesInvariant,
         \/ \E t \in Task : Cancel(t) \/ Cleanup(t) \/ Work(t)
         \/ \E c \in Consumer : StartConsumer(c) \/ Exit(c) \/ NoWorker(c)
         \/ StopConsumer
         \/ UNCHANGED vars
  PROVE  PlacesInvariant'
<1> USE DEF QueueInvariant, PlacesInvariant
<1>1. ASSUME NEW t \in Task, Cancel(t) \/ Cleanup(t) \/ Work(t)
      PROVE  PlacesInvariant'
  <2>1. /\ UNCHANGED <<queue, hand, pc>>
        /\ \A u \in Task : status'[u] = status[u] \/ status'[u] \notin {"new", "running", "pending"}
        /\ \A u \in Task : worker'[u] = worker[u] \/ worker'[u] # "none"
    <3>1. CASE Cancel(t) \/ Cleanup(t)
      BY <3>1 DEF Cancel, Cleanup, threadVars, TypeOK
    <3>2. CASE Settle(t)
      BY <3>2 DEF Settle, threadVars, TypeOK
    <3>3. CASE Release(t)
      BY <3>3 DEF Release, threadVars, TypeOK
    <3> QED
      BY <1>1, <3>1, <3>2, <3>3 DEF Work
  <2>2. (OncePlaced /\ OnlyWaitingPlaced /\ PendingPlaced)'
    BY <2>1, SamePlaces
  <2>3. HandsHold'
    BY <2>1, SameHands
  <2> QED
    BY <2>2, <2>3
<1>2. ASSUME NEW c \in Consumer, StartConsumer(c) \/ Exit(c) \/ NoWorker(c)
      PROVE  PlacesInvariant'
  <2>1. /\ UNCHANGED <<queue, hand, status, worker>>
        /\ \A d \in Consumer : pc'[d] \notin {"acquire", "requeue"} =>
                                  pc[d] \notin {"acquire", "requeue"}
    BY <1>2 DEF StartConsumer, Exit, NoWorker, Goto, TypeOK
  <2>2. (OncePlaced /\ OnlyWaitingPlaced /\ PendingPlaced)'
    BY <2>1, SamePlaces
  <2>3. HandsHold'
    BY <2>1, SameHands
  <2> QED
    BY <2>2, <2>3
<1>3. ASSUME StopConsumer \/ UNCHANGED vars
      PROVE  PlacesInvariant'
  <2>1. UNCHANGED <<queue, hand, status, worker, pc>>
    BY <1>3 DEF StopConsumer, vars, threadVars
  <2>2. (OncePlaced /\ OnlyWaitingPlaced /\ PendingPlaced)'
    BY <2>1, SamePlaces
  <2>3. HandsHold'
    BY <2>1, SameHands
  <2> QED
    BY <2>2, <2>3
<1> QED
  BY <1>1, <1>2, <1>3

-----------------------------------------------------------------------------
LEMMA PlacesNext == QueueInvariant /\ PlacesInvariant /\ [Next]_vars => PlacesInvariant'
<1> SUFFICES ASSUME QueueInvariant, PlacesInvariant, [Next]_vars
             PROVE  PlacesInvariant'
  OBVIOUS
<1> QED
  BY PlacesEnqueue, PlacesDequeue, PlacesDequeueNothing, PlacesRequeue, PlacesDispatch,
     PlacesElse DEF Next, Client, Loop

(* Where the invariant says a task is, it is counted. *)
LEMMA PlacedOnce ==
  ASSUME QueueInvariant, PlacesInvariant, NEW t \in Task, status[t] = "pending"
  PROVE  Cardinality(Places(t)) = 1 /\ Hands(t) = {}
<1> USE DEF QueueInvariant, PlacesInvariant
<1>1. PICK p \in Priority, i \in Nat : At(t, p, i)
  BY DEF PendingPlaced
<1>2. Places(t) = {<<p, i>>}
  <2>1. <<p, i>> \in Places(t)
    BY <1>1 DEF At, Places
  <2>2. ASSUME NEW x \in Places(t)
        PROVE  x = <<p, i>>
    <3>1. PICK q \in Priority : x \in {q} \X {j \in 1..Len(queue[q]) : queue[q][j] = t}
      BY <2>2 DEF Places
    <3>2. PICK j \in 1..Len(queue[q]) : x = <<q, j>> /\ queue[q][j] = t
      BY <3>1
    <3>3. At(t, q, j) /\ j \in Nat
      BY <3>2 DEF At
    <3> QED
      BY <3>2, <3>3, <1>1 DEF OncePlaced
  <2> QED
    BY <2>1, <2>2
<1>3. Hands(t) = {}
  BY DEF Hands, HandsHold, HandRuns
<1> QED
  BY <1>2, <1>3, FS_Singleton

LEMMA HeldOnce ==
  ASSUME QueueInvariant, PlacesInvariant, NEW t \in Task, status[t] = "running"
  PROVE  Places(t) = {} /\ Cardinality(Hands(t)) = IF worker[t] = "none" THEN 1 ELSE 0
<1> USE DEF QueueInvariant, PlacesInvariant
<1>1. Places(t) = {}
  <2> SUFFICES ASSUME NEW x \in Places(t)
               PROVE  FALSE
    OBVIOUS
  <2>1. PICK q \in Priority : x \in {q} \X {j \in 1..Len(queue[q]) : queue[q][j] = t}
    BY DEF Places
  <2>2. PICK j \in 1..Len(queue[q]) : queue[q][j] = t
    BY <2>1
  <2> QED
    BY <2>2 DEF At, OnlyWaitingPlaced
<1>2. \A c \in Hands(t) : c = current /\ worker[t] = "none"
  BY DEF Hands, HandsHold, HandRuns, OneConsumer
<1>3. CASE worker[t] = "none"
  <2>1. PICK c \in Consumer : hand[c] = t
    BY <1>3 DEF HandsHold
  <2>2. Hands(t) = {c}
    BY <2>1, <1>2 DEF Hands
  <2> QED
    BY <2>2, <1>1, <1>3, FS_Singleton
<1>4. CASE worker[t] # "none"
  <2>1. Hands(t) = {}
    BY <1>2, <1>4
  <2> QED
    BY <2>1, <1>1, <1>4, FS_EmptySet
<1> QED
  BY <1>3, <1>4

(* Whatever the consumer, its stops and restarts and the clients do, a     *)
(* pending task is in one place of the queues and a running one is with    *)
(* one consumer or its worker: enqueue, dequeue and _re_enqueue lose none. *)
THEOREM NoTaskIsLost == Spec => []TaskIsSomewhere
<1>1. QueueInvariant /\ PlacesInvariant => TaskIsSomewhere
  BY PlacedOnce, HeldOnce DEF TaskIsSomewhere
<1> QED
  BY <1>1, PlacesInit, PlacesNext, Invariance, PTL DEF Spec
-----------------------------------------------------------------------------
(* In which order the tasks start.  A task is only in the queue of its own *)
(* priority, the queues keep the order of arrival, and what a consumer has *)
(* in hand came before all that is left in its queue and in those that are *)
(* more urgent.                                                            *)

OwnPlaced ==
  \A t \in Task, p \in Priority, i \in Nat : At(t, p, i) => p = PriorityOf[t]

NewHasNotArrived ==
  \A t \in Task : status[t] = "new" => \A i \in 1..Len(arrived) : arrived[i] # t

InOrder ==
  \A t, u \in Task, p \in Priority, i, j \in Nat :
    At(t, p, i) /\ At(u, p, j) /\ i < j => ~ Before(u, t)

HandFirst ==
  \A c \in Consumer : pc[c] \in {"acquire", "requeue"} =>
    \A u \in Task, p \in Priority, i \in Nat :
      At(u, p, i) /\ p <= PriorityOf[hand[c]] => ~ Before(u, hand[c])

OrderInvariant == OwnPlaced /\ NewHasNotArrived /\ InOrder /\ HandFirst

LEMMA OrderInit == Init => OrderInvariant
<1> SUFFICES ASSUME Init PROVE OrderInvariant
  OBVIOUS
<1>1. \A t \in Task, p \in Priority, i \in Nat : ~ At(t, p, i)
  <2>1. \A p \in Priority : queue[p] = <<>>
    BY DEF Init
  <2>2. \A p \in Priority : 1..Len(queue[p]) = {}
    BY <2>1
  <2> QED
    BY <2>2 DEF At
<1>2. NewHasNotArrived
  <2>1. 1..Len(arrived) = {}
    BY DEF Init
  <2> QED
    BY <2>1 DEF NewHasNotArrived
<1> QED
  BY <1>1, <1>2 DEF OrderInvariant, OwnPlaced, InOrder, HandFirst

(* A task that arrives now was before no other, and leaves their order.    *)
LEMMA ArrivesLast ==
  ASSUME TypeOK, NewHasNotArrived, NEW t \in Task, status[t] = "new",
         arrived' = Append(arrived, t)
  PROVE  /\ \A u \in Task : ~ Before(t, u)'
         /\ \A u, v \in Task : v # t => (Before(u, v)' <=> Before(u, v))
         /\ \A i \in 1..Len(arrived') : arrived'[i] = t \/ (i \in 1..Len(arrived) /\ arrived'[i] = arrived[i])
<1>1. PICK n : n = Len(arrived)
  OBVIOUS
<1>2. n \in Nat /\ arrived \in Seq(Task)
  BY <1>1 DEF TypeOK
<1>3. /\ Len(arrived') = n + 1
      /\ arrived'[n + 1] = t
      /\ \A i \in 1..n : arrived'[i] = arrived[i]
  BY <1>1, <1>2
<1>4. \A i \in 1..(n + 1) : i \in 1..n \/ i = n + 1
  BY <1>2
<1>5. \A i \in 1..n : i \in 1..(n + 1) /\ ~ (n + 1 < i)
  BY <1>2
<1>6. \A i \in 1..n : arrived[i] # t
  BY <1>1 DEF NewHasNotArrived
<1>7. ASSUME NEW u \in Task, Before(t, u)'
      PROVE  FALSE
  <2>1. PICK i, j \in 1..(n + 1) : i < j /\ arrived'[i] = t
    BY <1>3, <1>7 DEF Before
  <2>2. i \in 1..n
    BY <2>1, <1>2
  <2> QED
    BY <2>1, <2>2, <1>3, <1>6
<1>8. ASSUME NEW u \in Task, NEW v \in Task, v # t
      PROVE  Before(u, v)' <=> Before(u, v)
  <2>1. ASSUME Before(u, v)
        PROVE  Before(u, v)'
    <3>1. PICK i, j \in 1..n : i < j /\ arrived[i] = u /\ arrived[j] = v
      BY <1>1, <2>1 DEF Before
    <3> QED
      BY <3>1, <1>3, <1>5 DEF Before
  <2>2. ASSUME Before(u, v)'
        PROVE  Before(u, v)
    <3>1. PICK i, j \in 1..(n + 1) : i < j /\ arrived'[i] = u /\ arrived'[j] = v
      BY <1>3, <2>2 DEF Before
    <3>2. j \in 1..n
      BY <3>1, <1>3, <1>4, <1>8
    <3>3. i \in 1..n
      BY <3>1, <3>2, <1>2
    <3> QED
      BY <3>1, <3>2, <3>3, <1>1, <1>3 DEF Before
  <2> QED
    BY <2>1, <2>2
<1>9. \A i \in 1..Len(arrived') : arrived'[i] = t \/ (i \in 1..Len(arrived) /\ arrived'[i] = arrived[i])
  <2> SUFFICES ASSUME NEW i \in 1..(n + 1)
               PROVE  arrived'[i] = t \/ (i \in 1..n /\ arrived'[i] = arrived[i])
    BY <1>1, <1>3
  <2>1. CASE i = n + 1
    <3>1. arrived'[i] = t
      BY <2>1, <1>3
    <3> QED
      BY <3>1
  <2>2. CASE i \in 1..n
    BY <2>2, <1>3
  <2> QED
    BY <2>1, <2>2, <1>4
<1>10. \A u \in Task : ~ Before(t, u)'
  BY <1>7
<1>11. \A u, v \in Task : v # t => (Before(u, v)' <=> Before(u, v))
  BY <1>8
<1> QED
  BY <1>9, <1>10, <1>11

LEMMA OrderEnqueue ==
  ASSUME QueueInvariant, PlacesInvariant, OrderInvariant, NEW t \in Task, Enqueue(t)
  PROVE  OrderInvariant'
<1> USE DEF QueueInvariant, PlacesInvariant, OrderInvariant
<1>1. status[t] = "new"
  BY DEF Enqueue
<1>2. /\ status' = [status EXCEPT ![t] = "pending"]
      /\ arrived' = Append(arrived, t)
      /\ UNCHANGED <<pc, hand>>
  BY DEF Enqueue, threadVars
<1>3. PICK r \in Priority, n \in Nat :
        /\ r = PriorityOf[t] /\ n = Len(queue[r]) + 1
        /\ \A u \in Task, p \in Priority, i \in Nat :
             At(u, p, i)' <=> At(u, p, i) \/ (u = t /\ p = r /\ i = n)
  BY EnqueueMoves
<1>4. /\ \A u \in Task : ~ Before(t, u)'
      /\ \A u, v \in Task : v # t => (Before(u, v)' <=> Before(u, v))
      /\ \A i \in 1..Len(arrived') : arrived'[i] = t \/ (i \in 1..Len(arrived) /\ arrived'[i] = arrived[i])
  BY <1>1, <1>2, ArrivesLast
<1>5. OwnPlaced'
  BY <1>3 DEF OwnPlaced
<1>6. NewHasNotArrived'
  BY <1>2, <1>4 DEF NewHasNotArrived, TypeOK
<1>7. InOrder'
  <2> SUFFICES ASSUME NEW x \in Task, NEW y \in Task, NEW p \in Priority, NEW i \in Nat, NEW j \in Nat,
                      At(x, p, i)', At(y, p, j)', i < j
               PROVE  ~ Before(y, x)'
    BY DEF InOrder
  <2>1. CASE y = t
    BY <2>1, <1>4
  <2>2. CASE y # t
    <3>1. At(y, p, j)
      BY <2>2, <1>3
    <3>2. ~ (p = r /\ i = n)
      <4>1. p = r => j < n
        BY <3>1, <1>3 DEF At
      <4> QED
        BY <4>1
    <3>3. At(x, p, i)
      BY <3>2, <1>3
    <3>4. x # t
      BY <3>3, <1>1 DEF OnlyWaitingPlaced
    <3> QED
      BY <3>1, <3>3, <3>4, <1>4 DEF InOrder
  <2> QED
    BY <2>1, <2>2
<1>8. HandFirst'
  <2> SUFFICES ASSUME NEW c \in Consumer, pc[c] \in {"acquire", "requeue"},
                      NEW u \in Task, NEW p \in Priority, NEW i \in Nat,
                      At(u, p, i)', p <= PriorityOf[hand[c]]
               PROVE  ~ Before(u, hand[c])'
    BY <1>2 DEF HandFirst
  <2>1. hand[c] \in Task /\ hand[c] # t /\ hand'[c] = hand[c]
    BY <1>1, <1>2 DEF HandRuns
  <2>2. CASE u = t
    BY <2>1, <2>2, <1>4
  <2>3. CASE u # t
    <3>1. ~ Before(u, hand[c])
      BY <2>3, <1>3 DEF HandFirst
    <3> QED
      BY <2>1, <3>1, <1>4
  <2> QED
    BY <2>2, <2>3
<1> QED
  BY <1>5, <1>6, <1>7, <1>8

(* No step but an arrival changes what was before what.                    *)
LEMMA SameOrder ==
  ASSUME UNCHANGED arrived
  PROVE  \A t, u \in Task : Before(u, t)' <=> Before(u, t)
BY DEF Before

LEMMA OrderDequeue ==
  ASSUME QueueInvariant, PlacesInvariant, OrderInvariant, NEW c \in Consumer, Dequeue(c)
  PROVE  OrderInvariant'
<1> USE DEF QueueInvariant, PlacesInvariant, OrderInvariant
<1>1. PICK p \in Priority, i \in Nat, t \in Task :
        /\ pc[c] = "loop" /\ i > 0 /\ At(t, p, i) /\ status[t] = "pending"
        /\ pc' = [pc EXCEPT ![c] = "acquire"]
        /\ status' = [status EXCEPT ![t] = "running"]
        /\ hand' = [hand EXCEPT ![c] = t]
        /\ UNCHANGED arrived
        /\ \A u \in Task, q \in Priority, k \in Nat :
             At(u, q, k)' <=> (q > p /\ At(u, q, k)) \/ (q = p /\ k > 0 /\ At(u, p, k + i))
  BY DequeueMoves
<1>2. \A x, y \in Task : Before(y, x)' <=> Before(y, x)
  BY <1>1, SameOrder
<1>3. \A k \in Nat : k + i \in Nat /\ (k > 0 => i < k + i)
  BY <1>1
<1>4. OwnPlaced'
  <2> SUFFICES ASSUME NEW u \in Task, NEW q \in Priority, NEW k \in Nat, At(u, q, k)'
               PROVE  q = PriorityOf[u]
    BY DEF OwnPlaced
  <2>1. k + i \in Nat
    BY <1>3
  <2> QED
    BY <2>1, <1>1 DEF OwnPlaced
<1>5. NewHasNotArrived'
  BY <1>1 DEF NewHasNotArrived, TypeOK
<1>6. InOrder'
  <2> SUFFICES ASSUME NEW x \in Task, NEW y \in Task, NEW q \in Priority, NEW k \in Nat, NEW l \in Nat,
                      At(x, q, k)', At(y, q, l)', k < l
               PROVE  ~ Before(y, x)'
    BY DEF InOrder
  <2>1. CASE q = p
    <3>1. At(x, p, k + i) /\ At(y, p, l + i)
      <4>1. p \in Nat
        OBVIOUS
      <4> QED
        BY <4>1, <2>1, <1>1
    <3>2. k + i \in Nat /\ l + i \in Nat /\ k + i < l + i
      BY <1>1
    <3> QED
      BY <3>1, <3>2, <1>2 DEF InOrder
  <2>2. CASE q # p
    <3>1. At(x, q, k) /\ At(y, q, l)
      BY <2>2, <1>1
    <3> QED
      BY <3>1, <1>2 DEF InOrder
  <2> QED
    BY <2>1, <2>2
<1>7. HandFirst'
  <2> SUFFICES ASSUME NEW d \in Consumer, pc'[d] \in {"acquire", "requeue"},
                      NEW u \in Task, NEW q \in Priority, NEW k \in Nat,
                      At(u, q, k)', q <= PriorityOf[hand'[d]]
               PROVE  ~ Before(u, hand[d])'
    BY DEF HandFirst
  <2>1. d = c
    BY <1>1 DEF OneConsumer, TypeOK
  <2>2. hand'[d] = t /\ PriorityOf[t] = p
    BY <2>1, <1>1 DEF OwnPlaced, TypeOK
  <2>3. ~ (q > p)
    <3>1. q \in Int /\ p \in Int
      OBVIOUS
    <3>2. q <= p
      BY <2>2
    <3> QED
      BY <3>1, <3>2
  <2>4. k > 0 /\ At(u, p, k + i)
    BY <2>3, <1>1
  <2>5. ~ Before(u, t)
    BY <2>4, <1>1, <1>3 DEF InOrder
  <2>6. Before(u, hand[d])' => Before(u, t)
    BY <2>2, <1>1 DEF Before
  <2> QED
    BY <2>5, <2>6
<1> QED
  BY <1>4, <1>5, <1>6, <1>7

(* What was in no hurry does not become so when the queues are emptied.    *)
LEMMA OrderDequeueNothing ==
  ASSUME QueueInvariant, OrderInvariant, NEW c \in Consumer, DequeueNothing(c)
  PROVE  OrderInvariant'
<1>1. UNCHANGED <<status, arrived>>
  BY DEF DequeueNothing
<1>2. \A u \in Task, q \in Priority, k \in Nat : ~ At(u, q, k)'
  <2>1. \A q \in Priority : queue'[q] = <<>>
    BY DEF DequeueNothing
  <2>2. \A q \in Priority : 1..Len(queue'[q]) = {}
    BY <2>1
  <2> QED
    BY <2>2 DEF At
<1>3. NewHasNotArrived'
  BY <1>1 DEF OrderInvariant, NewHasNotArrived
<1> QED
  BY <1>2, <1>3 DEF OrderInvariant, OwnPlaced, InOrder, HandFirst

(* A task that goes back to the front is before all that is in its queue.  *)
LEMMA OrderRequeue ==
  ASSUME QueueInvariant, PlacesInvariant, OrderInvariant, NEW c \in Consumer, Requeue(c)
  PROVE  OrderInvariant'
<1> USE DEF QueueInvariant, PlacesInvariant, OrderInvariant
<1>1. PICK t \in Task, r \in Priority :
        /\ t = hand[c] /\ r = PriorityOf[t]
        /\ pc[c] = "requeue" /\ status[t] = "running" /\ worker[t] = "none"
        /\ pc' = [pc EXCEPT ![c] = "loop"]
        /\ status' = [status EXCEPT ![t] = "pending"]
        /\ hand' = [hand EXCEPT ![c] = NoTask]
        /\ UNCHANGED <<worker, arrived>>
        /\ \A u \in Task, q \in Priority, k \in Nat :
             At(u, q, k)' <=> \/ q # r /\ At(u, q, k)
                              \/ q = r /\ k = 1 /\ u = t
                              \/ q = r /\ k > 1 /\ At(u, r, k - 1)
  BY RequeueMoves
<1>2. \A x, y \in Task : Before(y, x)' <=> Before(y, x)
  BY <1>1, SameOrder
<1>3. \A k \in Nat : k > 1 => k - 1 \in Nat
  OBVIOUS
<1>4. OwnPlaced'
  BY <1>1, <1>3 DEF OwnPlaced
<1>5. NewHasNotArrived'
  BY <1>1 DEF NewHasNotArrived, TypeOK
<1>6. ASSUME NEW u \in Task, NEW k \in Nat, At(u, r, k)
      PROVE  ~ Before(u, t)
  <2>1. r <= PriorityOf[hand[c]]
    BY <1>1
  <2> QED
    BY <2>1, <1>1, <1>6 DEF HandFirst
<1>7. InOrder'
  <2> SUFFICES ASSUME NEW x \in Task, NEW y \in Task, NEW q \in Priority, NEW k \in Nat, NEW l \in Nat,
                      At(x, q, k)', At(y, q, l)', k < l
               PROVE  ~ Before(y, x)'
    BY DEF InOrder
  <2>1. CASE q # r
    <3>1. At(x, q, k) /\ At(y, q, l)
      BY <2>1, <1>1
    <3> QED
      BY <3>1, <1>2 DEF InOrder
  <2>2. CASE q = r /\ k = 1
    <3>1. x = t
      BY <2>2, <1>1
    <3>2. l - 1 \in Nat /\ At(y, r, l - 1)
      BY <2>2, <1>1
    <3> QED
      BY <3>1, <3>2, <1>2, <1>6
  <2>3. CASE q = r /\ k > 1
    <3>1. k - 1 \in Nat /\ l - 1 \in Nat /\ k - 1 < l - 1
      BY <2>3
    <3>2. At(x, r, k - 1) /\ At(y, r, l - 1)
      BY <2>3, <1>1
    <3> QED
      BY <3>1, <3>2, <1>2 DEF InOrder
  <2>4. CASE q = r /\ k = 0
    BY <2>4, <1>1
  <2> QED
    BY <2>1, <2>2, <2>3, <2>4
<1>8. HandFirst'
  <2>1. \A d \in Consumer : pc'[d] \notin {"acquire", "requeue"}
    BY <1>1 DEF OneConsumer, TypeOK
  <2> QED
    BY <2>1 DEF HandFirst
<1> QED
  BY <1>4, <1>5, <1>7, <1>8

(* As long as queues, hands and arrivals stay, so does the order. *)
LEMMA OrderElse ==
  ASSUME QueueInvariant, OrderInvariant, UNCHANGED <<queue, arrived>>,
         \A t \in Task : status'[t] = "new" => status[t] = "new",
         \A c \in Consumer : pc'[c] \in {"acquire", "requeue"} =>
                                 pc[c] \in {"acquire", "requeue"} /\ hand'[c] = hand[c]
  PROVE  OrderInvariant'
<1> USE DEF OrderInvariant
<1>1. \A u, p, i : At(u, p, i)' <=> At(u, p, i)
  BY DEF At
<1>2. \A x, y \in Task : Before(y, x)' <=> Before(y, x)
  BY SameOrder
<1>3. OwnPlaced'
  BY <1>1 DEF OwnPlaced
<1>4. NewHasNotArrived'
  BY DEF NewHasNotArrived
<1>5. InOrder'
  BY <1>1, <1>2 DEF InOrder
<1>6. HandFirst'
  <2> SUFFICES ASSUME NEW c \in Consumer, pc'[c] \in {"acquire", "requeue"},
                      NEW u \in Task, NEW p \in Priority, NEW i \in Nat,
                      At(u, p, i)', p <= PriorityOf[hand'[c]]
               PROVE  ~ Before(u, hand[c])'
    BY DEF HandFirst
  <2>1. ~ Before(u, hand[c])
    BY <1>1 DEF HandFirst
  <2> QED
    BY <2>1 DEF Before
<1> QED
  BY <1>3, <1>4, <1>5, <1>6

LEMMA OrderNext ==
  QueueInvariant /\ PlacesInvariant /\ OrderInvariant /\ [Next]_vars => OrderInvariant'
<1> SUFFICES ASSUME QueueInvariant, PlacesInvariant, OrderInvariant, [Next]_vars
             PROVE  OrderInvariant'
  OBVIOUS
<1> USE DEF QueueInvariant
<1>1. ASSUME NEW t \in Task, Cancel(t) \/ Cleanup(t) \/ Work(t)
      PROVE  OrderInvariant'
  <2>1. UNCHANGED <<queue, arrived, pc, hand>>
    BY <1>1 DEF Cancel, Cleanup, Work, Settle, Release, threadVars
  <2>2. \A u \in Task : status'[u] = "new" => status[u] = "new"
    BY <1>1 DEF Cancel, Cleanup, Work, Settle, Release, TypeOK
  <2> QED
    BY <2>1, <2>2, OrderElse
<1>2. ASSUME NEW c \in Consumer, StartConsumer(c) \/ Exit(c) \/ NoWorker(c) \/ Dispatch(c)
      PROVE  OrderInvariant'
  <2>1. UNCHANGED <<queue, arrived, status>>
    BY <1>2 DEF StartConsumer, Exit, NoWorker, Dispatch
  <2>2. \A d \in Consumer : pc'[d] \in {"acquire", "requeue"} =>
                               pc[d] \in {"acquire", "requeue"} /\ hand'[d] = hand[d]
    BY <1>2 DEF StartConsumer, Exit, NoWorker, Dispatch, Goto, TypeOK
  <2> QED
    BY <2>1, <2>2, OrderElse
<1>3. CASE StopConsumer \/ UNCHANGED vars
  <2>1. UNCHANGED <<queue, arrived, status, pc, hand>>
    BY <1>3 DEF StopConsumer, vars, threadVars
  <2> QED
    BY <2>1, OrderElse
<1> QED
  BY <1>1, <1>2, <1>3, OrderEnqueue, OrderDequeue, OrderDequeueNothing, OrderRequeue
  DEF Next, Client, Loop

(* A task does not start while one that came earlier, and is at least as   *)
(* urgent, waits: neither dequeue nor a way back to the front of a queue   *)
(* lets a task overtake another.                                           *)
THEOREM StartedInOrder == Spec => StartsInOrder
<1> DEFINE Overtaken(t, u) ==
        worker[t] = "none" /\ worker'[t] = "running"
        /\ Before(u, t) /\ PriorityOf[u] <= PriorityOf[t]
<1>1. ASSUME QueueInvariant, PlacesInvariant, OrderInvariant, [Next]_vars,
             NEW t \in Task, NEW u \in Task, Overtaken(t, u)
      PROVE  status[u] # "pending"
  <2> USE DEF QueueInvariant, PlacesInvariant, OrderInvariant
  <2>1. PICK c \in Consumer : Dispatch(c) /\ hand[c] = t
    <3>1. ASSUME NEW v \in Task, Enqueue(v) \/ Cancel(v) \/ Cleanup(v) \/ Work(v)
          PROVE  FALSE
      BY <1>1, <3>1 DEF Enqueue, Cancel, Cleanup, Work, Settle, Release, TypeOK
    <3>2. ASSUME NEW c \in Consumer,
                 StartConsumer(c) \/ Exit(c) \/ Dequeue(c) \/ DequeueNothing(c) \/ NoWorker(c) \/ Requeue(c)
          PROVE  FALSE
      BY <1>1, <3>2 DEF StartConsumer, Exit, Dequeue, DequeueNothing, NoWorker, Requeue
    <3>3. CASE StopConsumer \/ UNCHANGED vars
      BY <1>1, <3>3 DEF StopConsumer, vars
    <3>4. PICK c \in Consumer : Dispatch(c)
      BY <1>1, <3>1, <3>2, <3>3 DEF Next, Client, Loop
    <3>5. worker' = [worker EXCEPT ![hand[c]] = "running"]
      BY <3>4 DEF Dispatch
    <3>6. hand[c] = t
      BY <1>1, <3>5 DEF TypeOK
    <3> QED
      BY <3>4, <3>6
  <2> SUFFICES ASSUME status[u] = "pending"
               PROVE  FALSE
    OBVIOUS
  <2>2. PICK p \in Priority, i \in Nat : At(u, p, i)
    BY <1>1 DEF PendingPlaced
  <2>3. p = PriorityOf[u]
    BY <1>1, <2>2 DEF OwnPlaced
  <2>4. pc[c] = "acquire"
    BY <2>1 DEF Dispatch, Goto
  <2> QED
    BY <1>1, <2>1, <2>2, <2>3, <2>4 DEF HandFirst
<1>2. QueueInvariant /\ PlacesInvariant /\ OrderInvariant /\ [Next]_vars
      => [\A t, u \in Task : Overtaken(t, u) => status[u] # "pending"]_vars
  BY <1>1
<1> QED
  BY <1>2, OrderInit, OrderNext, PlacesInit, PlacesNext, Invariance, PTL DEF Spec, StartsInOrder
=============================================================================
