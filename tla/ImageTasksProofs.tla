--------------------------- MODULE ImageTasksProofs ---------------------------
(***************************************************************************)
(* Proofs about image tasks, for any number of keys, prompts, jobs and     *)
(* restarts, whichever saves fail unless a theorem says otherwise.         *)
(*                                                                         *)
(* The inductive invariant ties each thread to its task: while a thread is *)
(* at work its task cannot be resumed, cleaned away or taken for new, and  *)
(* a success that reached the file is one in memory too.                   *)
(***************************************************************************)
EXTENDS ImageTasks, FiniteSetTheorems, TLAPS

(* The thread of a job has its task still to settle. *)
Busy(j) == pc[j] \notin {"none", "end", "over", "lost"}

(* What the task of a busy job looks like. *)
Occupied(j) ==
  LET t == task[key[j]]
  IN /\ ~t.old
     /\ pc[j] = "clear" => t.st \in Terminal /\ t.resuming
     /\ pc[j] # "clear" => t.st \in Unfinished /\ (kind[j] = "resume" => t.resuming)

BusyOccupies == \A j \in Job : Busy(j) => Occupied(j)

(* Only resumed polls clear, only generations start. *)
StagesMatchKinds ==
  \A j \in Job : (pc[j] = "start" => kind[j] = "run") /\ (pc[j] = "clear" => kind[j] = "resume")

BusyAlone == \A i, j \in Job : Busy(i) /\ Busy(j) /\ key[i] = key[j] => i = j

WorkerInvariant ==
  /\ TypeOK
  /\ StagesMatchKinds
  /\ BusyOccupies
  /\ BusyAlone

(* Nobody works on a task that is not there, or was never handed in. *)
Idle(k) == task[k].st \in {"absent", "queued"} /\ Active(k) = {}

(* Where the file has a success, so has the memory, and that task is old   *)
(* when the file says so; or the task has gone and no thread has it.       *)
SuccessInMemory ==
  \A k \in Key : disk[k].st = "success" =>
    (task[k].st = "success" /\ (disk[k].old => task[k].old)) \/ Idle(k)

(* A task within the window remembers its prompt and is not cleaned away. *)
PromptKept ==
  \A k \in Key : task[k].fresh =>
    task[k].prompt = asked[k] /\ ~task[k].old /\ task[k].st # "absent"

-----------------------------------------------------------------------------
(* What the pieces of the actions do. *)

LEMMA AbsentTyped ==
  /\ Absent \in Tasks /\ Absent.st = "absent" /\ ~Absent.fresh
  /\ \A p \in Prompt : New(p) \in Tasks
BY DEF Absent, New, Tasks, Unfinished, Terminal

(* The clean-up takes settled, old tasks away and leaves all others. *)
LEMMA CleanedTyped ==
  ASSUME NEW ts \in [Key -> Tasks]
  PROVE  /\ Cleaned(ts) \in [Key -> Tasks]
         /\ \A k \in Key :
              \/ Cleaned(ts)[k] = ts[k] /\ ~(ts[k].st \in Terminal /\ ts[k].old)
              \/ Cleaned(ts)[k] = Absent /\ ts[k].st \in Terminal /\ ts[k].old
BY AbsentTyped DEF Cleaned

LEMMA CleanedFacts ==
  ASSUME TypeOK
  PROVE  /\ Cleaned(task) \in [Key -> Tasks]
         /\ \A k \in Key :
              \/ Cleaned(task)[k] = task[k] /\ ~(task[k].st \in Terminal /\ task[k].old)
              \/ Cleaned(task)[k] = Absent /\ task[k].st \in Terminal /\ task[k].old
BY CleanedTyped DEF TypeOK

(* _update_task changes at most the task it is given. *)
LEMMA UpdateFacts ==
  ASSUME TypeOK, NEW k \in Key, NEW t \in Tasks, Update(k, t)
  PROVE  /\ task' \in [Key -> Tasks] /\ disk' \in [Key -> Tasks]
         /\ \A l \in Key : l # k => task'[l] = task[l]
         /\ task'[k] = IF task[k].st = "absent" THEN task[k] ELSE t
         /\ disk' = disk \/ disk' = task'
BY DEF TypeOK, Update, Save

(* A job that is handed in is typed like the others, which stay as they are. *)
LEMMA HandInFacts ==
  ASSUME TypeOK, NEW j \in Job, NEW k \in Key, NEW what \in {"run", "resume"},
         HandIn(j, k, what)
  PROVE  /\ pc' \in [Job -> {"none", "hand", "queue", "start", "work", "clear", "end", "over", "lost"}]
         /\ key' \in [Job -> Key] /\ kind' \in [Job -> {"run", "resume"}]
         /\ pc[j] = "none" /\ pc'[j] = "hand" /\ key'[j] = k /\ kind'[j] = what
         /\ \A i \in Job : i # j => pc'[i] = pc[i] /\ key'[i] = key[i] /\ kind'[i] = kind[i]
BY DEF TypeOK, HandIn, Unused

LEMMA GotoFacts ==
  ASSUME TypeOK, NEW j \in Job, NEW from,
         NEW to \in {"none", "hand", "queue", "start", "work", "clear", "end", "over", "lost"},
         Goto(j, from, to)
  PROVE  /\ pc' \in [Job -> {"none", "hand", "queue", "start", "work", "clear", "end", "over", "lost"}]
         /\ pc[j] = from /\ pc'[j] = to
         /\ \A i \in Job : i # j => pc'[i] = pc[i]
BY DEF TypeOK, Goto

(* A step of the queue leaves its view typed. *)
LEMMA QueueTyped ==
  ASSUME TypeOK, NEW j \in Job, Queue!Submit(j) \/ Queue!Start(j) \/ Queue!End(j)
  PROVE  state' \in [Job -> {"unknown", "waiting", "running", "ended", "cancelled", "dropped"}]
BY DEF TypeOK, Queue!Submit, Queue!Start, Queue!End, Queue!Become

-----------------------------------------------------------------------------
LEMMA InitWorker == Init => WorkerInvariant
<1> SUFFICES ASSUME Init PROVE WorkerInvariant
  OBVIOUS
<1>1. TypeOK
  <2>1. task \in [Key -> Tasks] /\ disk \in [Key -> Tasks]
    BY AbsentTyped DEF Init
  <2>2. key \in [Job -> Key]
    BY DEF Init
  <2>3. /\ pc = [j \in Job |-> "none"] /\ kind = [j \in Job |-> "run"]
        /\ state = [j \in Job |-> "unknown"] /\ asked = [k \in Key |-> ""]
        /\ restarts = 0
    BY DEF Init, Queue!Init
  <2>4. /\ pc \in [Job -> {"none", "hand", "queue", "start", "work", "clear", "end", "over", "lost"}]
        /\ kind \in [Job -> {"run", "resume"}]
        /\ state \in [Job -> {"unknown", "waiting", "running", "ended", "cancelled", "dropped"}]
    BY <2>3
  <2>5. asked \in [Key -> Prompt \cup {""}]
    BY <2>3
  <2>6. restarts \in 0..MaxRestarts
    <3>1. restarts = 0
      BY DEF Init
    <3> QED
      BY <3>1, BoundsAssumption DEF BoundsAssumption
  <2> QED
    BY <2>1, <2>2, <2>4, <2>5, <2>6 DEF TypeOK
<1>2. \A j \in Job : pc[j] = "none"
  BY DEF Init
<1> QED
  BY <1>1, <1>2 DEF WorkerInvariant, StagesMatchKinds, BusyOccupies, BusyAlone, Busy

(* Steps of clients. *)
LEMMA CleanUpKeeps ==
  ASSUME WorkerInvariant, task' = Cleaned(task), Save(SubmitSaveFails),
         UNCHANGED <<jobVars, restarts, asked>>
  PROVE  WorkerInvariant'
<1> USE DEF WorkerInvariant, jobVars
<1>1. TypeOK'
  BY CleanedFacts DEF TypeOK, Save
<1>2. BusyOccupies'
  <2> SUFFICES ASSUME NEW j \in Job, Busy(j)
               PROVE  task'[key[j]] = task[key[j]]
    BY DEF BusyOccupies, Busy, Occupied
  <2> QED
    BY CleanedFacts DEF BusyOccupies, Occupied, TypeOK
<1> QED
  BY <1>1, <1>2 DEF StagesMatchKinds, BusyAlone, Busy

LEMMA SubmitNewKeeps ==
  ASSUME WorkerInvariant, NEW k \in Key, NEW p \in Prompt, NEW j \in Job, SubmitNew(k, p, j)
  PROVE  WorkerInvariant'
<1> USE DEF WorkerInvariant
<1>0. /\ TypeOK
      /\ Cleaned(task)[k].st = "absent"
      /\ task' = [Cleaned(task) EXCEPT ![k] = New(p)]
      /\ asked' = [asked EXCEPT ![k] = p]
      /\ UNCHANGED restarts
  BY DEF SubmitNew
<1>1. /\ task' \in [Key -> Tasks]
      /\ task'[k] = New(p)
      /\ \A l \in Key : l # k => task'[l] = Cleaned(task)[l]
  BY <1>0, CleanedFacts, AbsentTyped
<1>2. asked' \in [Key -> Prompt \cup {""}]
  BY <1>0 DEF TypeOK
<1>3. ASSUME NEW i \in Job, Busy(i)
      PROVE  key[i] # k /\ task'[key[i]] = task[key[i]]
  <2>1. /\ key[i] \in Key
        /\ ~(task[key[i]].st \in Terminal /\ task[key[i]].old)
        /\ task[key[i]].st # "absent"
    BY <1>3 DEF BusyOccupies, Occupied, TypeOK, Terminal, Unfinished
  <2>2. Cleaned(task)[key[i]] = task[key[i]]
    BY <2>1, <1>0, CleanedFacts
  <2> QED
    BY <1>0, <1>1, <2>1, <2>2
<1>4. CASE UNCHANGED <<disk, jobVars>>
  <2>1. TypeOK'
    BY <1>0, <1>1, <1>2, <1>4 DEF TypeOK, jobVars
  <2>2. BusyOccupies'
    BY <1>3, <1>4 DEF BusyOccupies, Busy, Occupied, jobVars
  <2> QED
    BY <2>1, <2>2, <1>4 DEF StagesMatchKinds, BusyAlone, Busy, jobVars
<1>5. CASE disk' = task' /\ HandIn(j, k, "run") /\ UNCHANGED state
  <2>1. /\ pc[j] = "none" /\ pc'[j] = "hand" /\ key'[j] = k /\ kind'[j] = "run"
        /\ \A i \in Job : i # j => pc'[i] = pc[i] /\ key'[i] = key[i] /\ kind'[i] = kind[i]
    BY <1>5, HandInFacts
  <2>2. TypeOK'
    BY <1>0, <1>1, <1>2, <1>5, HandInFacts DEF TypeOK
  <2>3. BusyOccupies'
    <3>1. Occupied(j)'
      BY <2>1, <1>1 DEF Occupied, New, Absent, Unfinished
    <3>2. ASSUME NEW i \in Job, i # j, Busy(i)'
          PROVE  Occupied(i)'
      BY <3>2, <2>1, <1>3 DEF BusyOccupies, Busy, Occupied
    <3> QED
      BY <3>1, <3>2 DEF BusyOccupies
  <2>4. BusyAlone'
    BY <2>1, <1>3 DEF BusyAlone, Busy
  <2> QED
    BY <2>1, <2>2, <2>3, <2>4 DEF StagesMatchKinds
<1> QED
  BY <1>4, <1>5 DEF SubmitNew

LEMMA ResumeKeeps ==
  ASSUME WorkerInvariant, NEW k \in Key, NEW j \in Job, Resume(k, j)
  PROVE  WorkerInvariant'
<1> USE DEF WorkerInvariant
<1> DEFINE t == [task[k] EXCEPT !.st = "running", !.err = "none", !.resuming = TRUE, !.old = FALSE]
<1>1. /\ TypeOK /\ MayResume(task[k]) /\ Update(k, t) /\ HandIn(j, k, "resume")
      /\ UNCHANGED <<state, restarts, asked>>
  BY DEF Resume
<1>2. t \in Tasks /\ t.st = "running" /\ t.resuming /\ ~t.old
  <2>1. task[k] \in Tasks
    BY <1>1 DEF TypeOK
  <2> QED
    BY <2>1 DEF Tasks, Unfinished
<1>3. /\ task' \in [Key -> Tasks] /\ disk' \in [Key -> Tasks]
      /\ task'[k] = t
      /\ \A l \in Key : l # k => task'[l] = task[l]
  BY <1>1, <1>2, UpdateFacts DEF MayResume
<1>4. /\ pc[j] = "none" /\ pc'[j] = "hand" /\ key'[j] = k /\ kind'[j] = "resume"
      /\ \A i \in Job : i # j => pc'[i] = pc[i] /\ key'[i] = key[i] /\ kind'[i] = kind[i]
  BY <1>1, HandInFacts
<1>5. TypeOK'
  BY <1>1, <1>3, HandInFacts DEF TypeOK
<1>6. \A i \in Job : Busy(i) => key[i] # k
  BY <1>1 DEF MayResume, BusyOccupies, Occupied, Terminal, Unfinished
<1>7. BusyOccupies'
  <2>1. Occupied(j)'
    BY <1>2, <1>3, <1>4 DEF Occupied, Unfinished
  <2>2. ASSUME NEW i \in Job, i # j, Busy(i)'
        PROVE  Occupied(i)'
    <3>1. Busy(i) /\ Occupied(i) /\ key[i] \in Key /\ key[i] # k
      BY <2>2, <1>1, <1>4, <1>6 DEF BusyOccupies, Busy, TypeOK
    <3> QED
      BY <3>1, <2>2, <1>3, <1>4 DEF Occupied
  <2> QED
    BY <2>1, <2>2 DEF BusyOccupies
<1>8. BusyAlone'
  BY <1>4, <1>6 DEF BusyAlone, Busy
<1> QED
  BY <1>4, <1>5, <1>7, <1>8 DEF StagesMatchKinds

-----------------------------------------------------------------------------
(* Steps of threads.  A job that leaves its task settled, or as its next   *)
(* stage expects it, disturbs no other job.                                *)
LEMMA ThreadKeeps ==
  ASSUME WorkerInvariant, TypeOK', NEW j \in Job, UNCHANGED <<key, kind>>,
         \A i \in Job : i # j => pc'[i] = pc[i],
         \A l \in Key : l # key[j] => task'[l] = task[l],
         Busy(j) \/ task' = task,
         Busy(j)' => Busy(j) /\ Occupied(j)',
         pc'[j] = "start" => kind[j] = "run",
         pc'[j] = "clear" => kind[j] = "resume"
  PROVE  WorkerInvariant'
<1> USE DEF WorkerInvariant
<1>1. ASSUME NEW i \in Job, i # j, Busy(i)'
      PROVE  Busy(i) /\ Occupied(i)'
  <2>1. Busy(i) /\ Occupied(i) /\ key[i] \in Key
    BY <1>1 DEF Busy, BusyOccupies, TypeOK
  <2>2. task'[key[i]] = task[key[i]]
    BY <2>1, <1>1 DEF BusyAlone
  <2> QED
    BY <2>1, <2>2, <1>1 DEF Occupied
<1>2. BusyOccupies'
  BY <1>1 DEF BusyOccupies
<1>3. BusyAlone'
  <2>1. \A i \in Job : Busy(i)' => Busy(i)
    BY <1>1
  <2> QED
    BY <2>1 DEF BusyAlone
<1>4. StagesMatchKinds'
  BY DEF StagesMatchKinds
<1> QED
  BY <1>2, <1>3, <1>4

LEMMA EnqueueStartKeep ==
  ASSUME WorkerInvariant, NEW j \in Job, Enqueue(j) \/ Start(j)
  PROVE  WorkerInvariant'
<1> USE DEF WorkerInvariant
<1>1. /\ TypeOK /\ UNCHANGED <<task, disk, key, kind, restarts, asked>>
      /\ Queue!Submit(j) \/ Queue!Start(j) \/ UNCHANGED state
  BY DEF Enqueue, Start
<1>2. \E from \in {"hand", "queue"}, to \in {"queue", FirstStep(j)} : Goto(j, from, to)
  BY DEF Enqueue, Start
<1>3. FirstStep(j) \in {"start", "work"} /\ (FirstStep(j) = "start" => kind[j] = "run")
  BY DEF FirstStep
<1>4. PICK from \in {"hand", "queue"}, to \in {"queue", "start", "work"} :
        Goto(j, from, to) /\ (to = "start" => kind[j] = "run")
  BY <1>2, <1>3
<1>5. /\ pc' \in [Job -> {"none", "hand", "queue", "start", "work", "clear", "end", "over", "lost"}]
      /\ pc[j] = from /\ pc'[j] = to
      /\ \A i \in Job : i # j => pc'[i] = pc[i]
  BY <1>1, <1>4, GotoFacts
<1>6. TypeOK'
  <2>1. state' \in [Job -> {"unknown", "waiting", "running", "ended", "cancelled", "dropped"}]
    BY <1>1, QueueTyped DEF TypeOK
  <2> QED
    BY <2>1, <1>1, <1>5 DEF TypeOK
<1>7. Busy(j) /\ Occupied(j)'
  BY <1>1, <1>5 DEF Busy, BusyOccupies, Occupied
<1> QED
  BY <1>1, <1>4, <1>5, <1>6, <1>7, ThreadKeeps

(* A busy job's task is there to be updated. *)
LEMMA BusyUpdates ==
  ASSUME WorkerInvariant, NEW j \in Job, Busy(j), NEW t \in Tasks, Update(key[j], t)
  PROVE  /\ task' \in [Key -> Tasks] /\ disk' \in [Key -> Tasks]
         /\ task'[key[j]] = t
         /\ \A l \in Key : l # key[j] => task'[l] = task[l]
         /\ disk' = disk \/ disk' = task'
<1>1. TypeOK /\ key[j] \in Key /\ task[key[j]].st # "absent"
  BY DEF WorkerInvariant, TypeOK, BusyOccupies, Occupied, Terminal, Unfinished
<1> QED
  BY <1>1, UpdateFacts

LEMMA BeginKeeps ==
  ASSUME WorkerInvariant, NEW j \in Job, Begin(j)
  PROVE  WorkerInvariant'
<1> USE DEF WorkerInvariant
<1> DEFINE t == [task[key[j]] EXCEPT !.st = "running", !.err = "none"]
<1>1. TypeOK /\ Update(key[j], t) /\ UNCHANGED <<key, kind, state, restarts, asked>>
  BY DEF Begin
<1>2. /\ pc' \in [Job -> {"none", "hand", "queue", "start", "work", "clear", "end", "over", "lost"}]
      /\ pc[j] = "start" /\ pc'[j] = "work"
      /\ \A i \in Job : i # j => pc'[i] = pc[i]
  BY <1>1, GotoFacts DEF Begin
<1>3. Busy(j) /\ Occupied(j)
  BY <1>2 DEF Busy, BusyOccupies
<1>4. t \in Tasks /\ t.st = "running" /\ t.old = task[key[j]].old /\ t.resuming = task[key[j]].resuming
  <2>1. task[key[j]] \in Tasks
    BY <1>1 DEF TypeOK
  <2> QED
    BY <2>1 DEF Tasks, Unfinished
<1>5. /\ task' \in [Key -> Tasks] /\ disk' \in [Key -> Tasks]
      /\ task'[key[j]] = t
      /\ \A l \in Key : l # key[j] => task'[l] = task[l]
  BY <1>1, <1>3, <1>4, BusyUpdates
<1>6. TypeOK'
  BY <1>1, <1>2, <1>5 DEF TypeOK
<1>7. Occupied(j)'
  BY <1>1, <1>2, <1>3, <1>4, <1>5 DEF Occupied, Unfinished
<1> QED
  BY <1>1, <1>2, <1>3, <1>5, <1>6, <1>7, ThreadKeeps

LEMMA ProgressKeeps ==
  ASSUME WorkerInvariant, NEW j \in Job, Progress(j)
  PROVE  WorkerInvariant'
<1> USE DEF WorkerInvariant
<1>1. /\ TypeOK /\ Busy(j) /\ task[key[j]] \in Tasks /\ Update(key[j], task[key[j]])
      /\ UNCHANGED <<jobVars, restarts, asked>>
  BY DEF Progress, Busy, TypeOK
<1>2. task' \in [Key -> Tasks] /\ disk' \in [Key -> Tasks] /\ task' = task
  <2>1. /\ task' \in [Key -> Tasks] /\ disk' \in [Key -> Tasks]
        /\ \A l \in Key : task'[l] = task[l]
    BY <1>1, BusyUpdates
  <2>2. task \in [Key -> Tasks]
    BY <1>1 DEF TypeOK
  <2>3. task' = [l \in Key |-> task'[l]] /\ task = [l \in Key |-> task[l]]
    BY <2>1, <2>2
  <2> QED
    BY <2>1, <2>3
<1>3. TypeOK'
  BY <1>1, <1>2 DEF TypeOK, jobVars
<1> QED
  BY <1>1, <1>2, <1>3 DEF StagesMatchKinds, BusyOccupies, BusyAlone, Busy, Occupied, jobVars

(* Whatever the outcome, the task is settled and otherwise as it was. *)
LEMMA FinishedTask ==
  ASSUME TypeOK, NEW j \in Job, Finish(j)
  PROVE  \E t \in Tasks :
           /\ Update(key[j], t)
           /\ t.st \in Terminal /\ t.old = task[key[j]].old
           /\ t.resuming = task[key[j]].resuming
<1> DEFINE t == task[key[j]]
<1>1. t \in Tasks
  BY DEF TypeOK
<1>2. [t EXCEPT !.st = "success", !.err = "none"] \in Tasks
  BY <1>1 DEF Tasks, Terminal
<1>3. \A e \in {"timeout", "other"} : [t EXCEPT !.st = "error", !.err = e] \in Tasks
  BY <1>1 DEF Tasks, Terminal
<1>4. [t EXCEPT !.st = "error", !.err = "timeout", !.conv = TRUE] \in Tasks
  BY <1>1 DEF Tasks, Terminal
<1>5. CASE Update(key[j], [t EXCEPT !.st = "success", !.err = "none"])
  <2>1. WITNESS [t EXCEPT !.st = "success", !.err = "none"] \in Tasks
  <2> QED
    BY <1>1, <1>5 DEF Tasks, Terminal
<1>6. ASSUME NEW e \in {"timeout", "other"}, Update(key[j], [t EXCEPT !.st = "error", !.err = e])
      PROVE  \E u \in Tasks :
               Update(key[j], u) /\ u.st \in Terminal /\ u.old = t.old /\ u.resuming = t.resuming
  BY <1>1, <1>3, <1>6 DEF Tasks, Terminal
<1>7. CASE Update(key[j], [t EXCEPT !.st = "error", !.err = "timeout", !.conv = TRUE])
  BY <1>1, <1>4, <1>7 DEF Tasks, Terminal
<1> QED
  BY <1>5, <1>6, <1>7 DEF Finish

LEMMA FinishKeeps ==
  ASSUME WorkerInvariant, NEW j \in Job, Finish(j)
  PROVE  WorkerInvariant'
<1> USE DEF WorkerInvariant
<1> DEFINE next == IF kind[j] = "run" THEN "end" ELSE "clear"
<1>1. TypeOK /\ Goto(j, "work", next) /\ UNCHANGED <<key, kind, state, restarts, asked>>
  BY DEF Finish
<1>2. /\ pc' \in [Job -> {"none", "hand", "queue", "start", "work", "clear", "end", "over", "lost"}]
      /\ pc[j] = "work" /\ pc'[j] = next
      /\ \A i \in Job : i # j => pc'[i] = pc[i]
  BY <1>1, GotoFacts
<1>3. Busy(j) /\ Occupied(j)
  BY <1>2 DEF Busy, BusyOccupies
<1>4. PICK t \in Tasks :
        /\ Update(key[j], t)
        /\ t.st \in Terminal /\ t.old = task[key[j]].old /\ t.resuming = task[key[j]].resuming
  BY <1>1, FinishedTask
<1>5. /\ task' \in [Key -> Tasks] /\ disk' \in [Key -> Tasks]
      /\ task'[key[j]] = t
      /\ \A l \in Key : l # key[j] => task'[l] = task[l]
  BY <1>3, <1>4, BusyUpdates
<1>6. TypeOK'
  BY <1>1, <1>2, <1>5 DEF TypeOK
<1>7. kind[j] \in {"run", "resume"}
  BY <1>1 DEF TypeOK
<1>8. Busy(j)' => Occupied(j)'
  BY <1>1, <1>2, <1>3, <1>4, <1>5, <1>7 DEF Busy, Occupied
<1> QED
  BY <1>1, <1>2, <1>3, <1>5, <1>6, <1>7, <1>8, ThreadKeeps

LEMMA ClearKeeps ==
  ASSUME WorkerInvariant, NEW j \in Job, Clear(j)
  PROVE  WorkerInvariant'
<1> USE DEF WorkerInvariant
<1> DEFINE t == [task[key[j]] EXCEPT !.resuming = FALSE]
<1>1. TypeOK /\ Update(key[j], t) /\ UNCHANGED <<key, kind, state, restarts, asked>>
  BY DEF Clear
<1>2. /\ pc' \in [Job -> {"none", "hand", "queue", "start", "work", "clear", "end", "over", "lost"}]
      /\ pc[j] = "clear" /\ pc'[j] = "end"
      /\ \A i \in Job : i # j => pc'[i] = pc[i]
  BY <1>1, GotoFacts DEF Clear
<1>3. Busy(j) /\ ~Busy(j)'
  BY <1>2 DEF Busy
<1>4. t \in Tasks
  <2>1. task[key[j]] \in Tasks
    BY <1>1 DEF TypeOK
  <2> QED
    BY <2>1 DEF Tasks
<1>5. /\ task' \in [Key -> Tasks] /\ disk' \in [Key -> Tasks]
      /\ \A l \in Key : l # key[j] => task'[l] = task[l]
  BY <1>1, <1>3, <1>4, BusyUpdates
<1>6. TypeOK'
  BY <1>1, <1>2, <1>5 DEF TypeOK
<1> QED
  BY <1>1, <1>2, <1>3, <1>5, <1>6, ThreadKeeps

LEMMA EndKeeps ==
  ASSUME WorkerInvariant, NEW j \in Job, End(j)
  PROVE  WorkerInvariant'
<1> USE DEF WorkerInvariant
<1>1. TypeOK /\ UNCHANGED <<task, disk, key, kind, restarts, asked>>
  BY DEF End
<1>2. /\ pc' \in [Job -> {"none", "hand", "queue", "start", "work", "clear", "end", "over", "lost"}]
      /\ pc[j] = "end" /\ pc'[j] = "over"
      /\ \A i \in Job : i # j => pc'[i] = pc[i]
  BY <1>1, GotoFacts DEF End
<1>3. state' \in [Job -> {"unknown", "waiting", "running", "ended", "cancelled", "dropped"}]
  BY <1>1, QueueTyped DEF End, TypeOK
<1>4. TypeOK'
  BY <1>1, <1>2, <1>3 DEF TypeOK
<1>5. ~Busy(j)'
  BY <1>2 DEF Busy
<1> QED
  BY <1>1, <1>2, <1>4, <1>5, ThreadKeeps
-----------------------------------------------------------------------------
(* Time, and the process. *)

LEMMA WindowEndsKeeps ==
  ASSUME WorkerInvariant, NEW k \in Key, WindowEnds(k)
  PROVE  WorkerInvariant'
<1> USE DEF WorkerInvariant, jobVars
<1>1. /\ TypeOK
      /\ task' = [task EXCEPT ![k].fresh = FALSE] /\ disk' = [disk EXCEPT ![k].fresh = FALSE]
      /\ UNCHANGED <<jobVars, restarts, asked>>
  BY DEF WindowEnds
<1>2. ASSUME NEW ts \in [Key -> Tasks]
      PROVE  /\ [ts EXCEPT ![k].fresh = FALSE] \in [Key -> Tasks]
             /\ \A l \in Key : /\ [ts EXCEPT ![k].fresh = FALSE][l].st = ts[l].st
                               /\ [ts EXCEPT ![k].fresh = FALSE][l].old = ts[l].old
                               /\ [ts EXCEPT ![k].fresh = FALSE][l].resuming = ts[l].resuming
  <2>1. ts[k] \in Tasks
    OBVIOUS
  <2>2. [ts[k] EXCEPT !.fresh = FALSE] \in Tasks
    BY <2>1 DEF Tasks
  <2>3. \A l \in Key : ts[l] \in Tasks
    OBVIOUS
  <2> QED
    BY <2>1, <2>2, <2>3 DEF Tasks
<1>3. TypeOK'
  BY <1>1, <1>2 DEF TypeOK
<1>4. BusyOccupies'
  <2>1. \A l \in Key : /\ task'[l].st = task[l].st /\ task'[l].old = task[l].old
                       /\ task'[l].resuming = task[l].resuming
    BY <1>1, <1>2 DEF TypeOK
  <2>2. \A j \in Job : Busy(j) => Occupied(j) /\ key[j] \in Key
    BY <1>1 DEF BusyOccupies, TypeOK
  <2> QED
    BY <1>1, <2>1, <2>2 DEF BusyOccupies, Busy, Occupied
<1> QED
  BY <1>1, <1>3, <1>4 DEF StagesMatchKinds, BusyAlone, Busy

LEMMA RetentionEndsKeeps ==
  ASSUME WorkerInvariant, NEW k \in Key, RetentionEnds(k)
  PROVE  WorkerInvariant'
<1> USE DEF WorkerInvariant, jobVars
<1>1. /\ TypeOK /\ Active(k) = {}
      /\ task' = [task EXCEPT ![k].old = TRUE]
      /\ disk' = [disk EXCEPT ![k].old = @ \/ disk[k].st # "absent"]
      /\ UNCHANGED <<jobVars, restarts, asked>>
  BY DEF RetentionEnds
<1>2. task' \in [Key -> Tasks] /\ \A l \in Key : l # k => task'[l] = task[l]
  <2>1. task \in [Key -> Tasks] /\ task[k] \in Tasks
    BY <1>1 DEF TypeOK
  <2>2. [task[k] EXCEPT !.old = TRUE] \in Tasks
    BY <2>1 DEF Tasks
  <2> QED
    BY <1>1, <2>1, <2>2
<1>3. disk' \in [Key -> Tasks]
  <2>1. disk \in [Key -> Tasks] /\ disk[k] \in Tasks
    BY <1>1 DEF TypeOK
  <2>2. [disk[k] EXCEPT !.old = disk[k].old \/ disk[k].st # "absent"] \in Tasks
    BY <2>1 DEF Tasks
  <2> QED
    BY <1>1, <2>1, <2>2
<1>4. TypeOK'
  BY <1>1, <1>2, <1>3 DEF TypeOK
<1>5. \A j \in Job : Busy(j) => key[j] # k
  BY <1>1 DEF Active, Busy
<1>6. BusyOccupies'
  BY <1>1, <1>2, <1>5 DEF BusyOccupies, Busy, Occupied, TypeOK
<1> QED
  BY <1>1, <1>4, <1>6 DEF StagesMatchKinds, BusyAlone, Busy

LEMMA TimeFacts ==
  ASSUME TypeOK, NEW k \in Key, WindowEnds(k) \/ RetentionEnds(k)
  PROVE  /\ \A l \in Key : l # k => task'[l] = task[l]
         /\ \A l \in Key : task'[l].st = task[l].st
         /\ ~task'[k].fresh
<1>1. task \in [Key -> Tasks] /\ task[k] \in Tasks
  BY DEF TypeOK
<1>2. CASE WindowEnds(k)
  <2>1. task' = [task EXCEPT ![k].fresh = FALSE]
    BY <1>2 DEF WindowEnds
  <2>2. task'[k].st = task[k].st /\ ~task'[k].fresh
    BY <1>1, <2>1 DEF Tasks
  <2> QED
    BY <1>1, <2>1, <2>2
<1>3. CASE RetentionEnds(k)
  <2>1. task' = [task EXCEPT ![k].old = TRUE] /\ ~task[k].fresh
    BY <1>3 DEF RetentionEnds
  <2>2. task'[k].st = task[k].st /\ ~task'[k].fresh
    BY <1>1, <2>1 DEF Tasks
  <2> QED
    BY <1>1, <2>1, <2>2
<1> QED
  BY <1>2, <1>3

(* What a restart reads back: nothing is unfinished, an old success alone  *)
(* is gone.                                                                *)
LEMMA RestartFacts ==
  ASSUME TypeOK, Restart
  PROVE  /\ task' \in [Key -> Tasks] /\ disk' \in [Key -> Tasks]
         /\ disk' = disk \/ disk' = task'
         /\ \A k \in Key :
              LET t == Recovered(Loaded(disk[k]))
              IN \/ task'[k] = t /\ ~(t.st \in Terminal /\ t.old)
                 \/ task'[k] = Absent /\ t.st \in Terminal /\ t.old
<1> DEFINE found == [k \in Key |-> Loaded(disk[k])]
           recovered == [k \in Key |-> Recovered(found[k])]
<1>1. /\ task' = Cleaned(recovered)
      /\ disk' = disk \/ disk' = task'
  BY DEF Restart
<1>2. disk \in [Key -> Tasks] /\ \A k \in Key : disk[k] \in Tasks
  BY DEF TypeOK
<1>3. ASSUME NEW t \in Tasks
      PROVE  Loaded(t) \in Tasks /\ Recovered(t) \in Tasks
  BY DEF Loaded, Recovered, Tasks, Terminal
<1>4. recovered \in [Key -> Tasks]
  BY <1>2, <1>3
<1>5. \A k \in Key : recovered[k] = Recovered(Loaded(disk[k]))
  OBVIOUS
<1> HIDE DEF recovered
<1>6. /\ task' \in [Key -> Tasks]
      /\ \A k \in Key :
           \/ task'[k] = recovered[k] /\ ~(recovered[k].st \in Terminal /\ recovered[k].old)
           \/ task'[k] = Absent /\ recovered[k].st \in Terminal /\ recovered[k].old
  BY <1>1, <1>4, CleanedTyped
<1> QED
  BY <1>1, <1>2, <1>5, <1>6

LEMMA RestartKeeps ==
  ASSUME WorkerInvariant, Restart
  PROVE  WorkerInvariant'
<1> USE DEF WorkerInvariant
<1>1. /\ TypeOK
      /\ restarts' = restarts + 1 /\ restarts < MaxRestarts
      /\ pc' = [j \in Job |-> IF pc[j] = "none" THEN "none" ELSE "lost"]
      /\ state' = [j \in Job |-> IF state[j] = "unknown" THEN "unknown" ELSE "dropped"]
      /\ UNCHANGED <<key, kind, asked>>
  BY DEF Restart
<1>2. /\ pc' \in [Job -> {"none", "hand", "queue", "start", "work", "clear", "end", "over", "lost"}]
      /\ state' \in [Job -> {"unknown", "waiting", "running", "ended", "cancelled", "dropped"}]
      /\ \A j \in Job : pc'[j] \in {"none", "lost"}
  BY <1>1
<1>3. restarts' \in 0..MaxRestarts
  <2>1. restarts \in 0..MaxRestarts /\ restarts < MaxRestarts /\ restarts' = restarts + 1
    BY <1>1 DEF TypeOK
  <2> QED
    BY <2>1, BoundsAssumption DEF BoundsAssumption
<1>4. TypeOK'
  BY <1>1, <1>2, <1>3, RestartFacts DEF TypeOK
<1> QED
  BY <1>2, <1>4 DEF StagesMatchKinds, BusyOccupies, BusyAlone, Busy

LEMMA NextWorker == WorkerInvariant /\ [Next]_vars => WorkerInvariant'
<1> SUFFICES ASSUME WorkerInvariant, [Next]_vars
             PROVE  WorkerInvariant'
  OBVIOUS
<1>1. ASSUME NEW k \in Key, SubmitAgain(k)
      PROVE  WorkerInvariant'
  BY <1>1, CleanUpKeeps DEF SubmitAgain
<1>2. ASSUME NEW k \in Key, NEW p \in Prompt, SubmitDuplicate(k, p)
      PROVE  WorkerInvariant'
  BY <1>2, CleanUpKeeps DEF SubmitDuplicate
<1>3. ASSUME NEW k \in Key, NEW p \in Prompt, NEW j \in Job, SubmitNew(k, p, j)
      PROVE  WorkerInvariant'
  BY <1>3, SubmitNewKeeps
<1>4. ASSUME NEW k \in Key, NEW j \in Job, Resume(k, j)
      PROVE  WorkerInvariant'
  BY <1>4, ResumeKeeps
<1>5. CASE List
  BY <1>5, CleanUpKeeps DEF List
<1>6. ASSUME NEW j \in Job, Step(j)
      PROVE  WorkerInvariant'
  BY <1>6, EnqueueStartKeep, BeginKeeps, ProgressKeeps, FinishKeeps, ClearKeeps, EndKeeps
     DEF Step
<1>7. ASSUME NEW k \in Key, WindowEnds(k) \/ RetentionEnds(k)
      PROVE  WorkerInvariant'
  BY <1>7, WindowEndsKeeps, RetentionEndsKeeps
<1>8. CASE Restart
  BY <1>8, RestartKeeps
<1>9. CASE UNCHANGED vars
  BY <1>9 DEF vars, WorkerInvariant, TypeOK, StagesMatchKinds, BusyOccupies, BusyAlone,
     Busy, Occupied
<1> QED
  BY <1>1, <1>2, <1>3, <1>4, <1>5, <1>6, <1>7, <1>8, <1>9 DEF Next, Client, Environment

LEMMA WorkersInvariance == Spec => []WorkerInvariant
BY InitWorker, NextWorker, PTL DEF Spec
-----------------------------------------------------------------------------
(* What a step other than a restart makes of a task that succeeded, and of *)
(* one that nobody works on; and what it makes of the file.                *)
StepKeeps(k) ==
  /\ task[k].st = "success" =>
       \/ task'[k].st = "success" /\ (task[k].old => task'[k].old)
       \/ /\ task[k].old
          /\ task'[k].st \in {"absent", "queued"}
          /\ disk' = task' \/ Idle(k)'
  /\ Idle(k) => disk' = task' \/ Idle(k)'

FileFollows ==
  \/ disk' = task'
  \/ \A k \in Key : /\ disk'[k].st = disk[k].st
                    /\ disk'[k].old => disk[k].old \/ task'[k].old

SuccessStep == FileFollows /\ \A k \in Key : StepKeeps(k)

(* An old, settled task has no thread. *)
LEMMA OldIsLeft ==
  ASSUME WorkerInvariant, NEW k \in Key, task[k].old
  PROVE  Active(k) = {}
BY DEF WorkerInvariant, BusyOccupies, Occupied, Busy, Active

LEMMA CleanUpSuccess ==
  ASSUME WorkerInvariant, task' = Cleaned(task), Save(SubmitSaveFails),
         UNCHANGED <<jobVars, restarts, asked>>
  PROVE  SuccessStep
<1>1. FileFollows
  BY DEF FileFollows, Save
<1>2. ASSUME NEW k \in Key
      PROVE  StepKeeps(k)
  <2>1. \/ task'[k] = task[k]
        \/ task'[k] = Absent /\ task[k].st \in Terminal /\ task[k].old
    BY CleanedFacts DEF WorkerInvariant
  <2>2. Active(k)' = Active(k)
    BY DEF Active, jobVars
  <2>3. CASE task'[k] = task[k]
    BY <2>2, <2>3 DEF StepKeeps, Idle
  <2>4. CASE task'[k] = Absent /\ task[k].st \in Terminal /\ task[k].old
    <3>1. Active(k) = {} /\ task'[k].st = "absent"
      BY <2>4, OldIsLeft, AbsentTyped
    <3> QED
      BY <2>2, <2>4, <3>1 DEF StepKeeps, Idle
  <2> QED
    BY <2>1, <2>3, <2>4
<1> QED
  BY <1>1, <1>2 DEF SuccessStep

LEMMA SubmitNewSuccess ==
  ASSUME WorkerInvariant, NEW k \in Key, NEW p \in Prompt, NEW j \in Job, SubmitNew(k, p, j)
  PROVE  SuccessStep
<1>0. /\ TypeOK
      /\ Cleaned(task)[k].st = "absent"
      /\ task' = [Cleaned(task) EXCEPT ![k] = New(p)]
  BY DEF SubmitNew, WorkerInvariant
<1>1. task'[k].st = "queued" /\ \A l \in Key : l # k => task'[l] = Cleaned(task)[l]
  BY <1>0, CleanedFacts DEF New, Absent
<1>2. task[k].st = "absent" \/ (task[k].st \in Terminal /\ task[k].old)
  BY <1>0, CleanedFacts
<1>3. Active(k) = {}
  <2>1. CASE task[k].st = "absent"
    BY <2>1 DEF WorkerInvariant, BusyOccupies, Occupied, Busy, Active, Terminal, Unfinished
  <2> QED
    BY <2>1, <1>2, OldIsLeft
<1>4. disk' = task' \/ UNCHANGED <<disk, jobVars>>
  BY DEF SubmitNew
<1>5. FileFollows
  BY <1>4 DEF FileFollows
<1>6. CASE disk' = task'
  <2>1. ASSUME NEW l \in Key
        PROVE  StepKeeps(l)
    <3>1. \/ l = k
          \/ task'[l] = task[l]
          \/ task'[l] = Absent /\ task[l].st \in Terminal /\ task[l].old
      BY <1>0, <1>1, CleanedFacts
    <3> QED
      BY <3>1, <1>1, <1>2, <1>6, AbsentTyped DEF StepKeeps, Terminal
  <2> QED
    BY <2>1, <1>5 DEF SuccessStep
<1>7. CASE UNCHANGED <<disk, jobVars>>
  <2>1. ASSUME NEW l \in Key
        PROVE  StepKeeps(l)
    <3>1. Active(l)' = Active(l)
      BY <1>7 DEF Active, jobVars
    <3>2. CASE l = k
      BY <3>1, <3>2, <1>1, <1>2, <1>3 DEF StepKeeps, Idle
    <3>3. CASE l # k /\ task'[l] = task[l]
      BY <3>1, <3>3 DEF StepKeeps, Idle
    <3>4. CASE l # k /\ task'[l] = Absent /\ task[l].st \in Terminal /\ task[l].old
      <4>1. Active(l) = {} /\ task'[l].st = "absent"
        BY <3>4, OldIsLeft, AbsentTyped
      <4> QED
        BY <3>1, <3>4, <4>1 DEF StepKeeps, Idle
    <3> QED
      BY <3>2, <3>3, <3>4, <1>0, <1>1, CleanedFacts
  <2> QED
    BY <2>1, <1>5 DEF SuccessStep
<1> QED
  BY <1>4, <1>6, <1>7

LEMMA ResumeSuccess ==
  ASSUME WorkerInvariant, NEW k \in Key, NEW j \in Job, Resume(k, j)
  PROVE  SuccessStep
<1> DEFINE t == [task[k] EXCEPT !.st = "running", !.err = "none", !.resuming = TRUE, !.old = FALSE]
<1>1. TypeOK /\ task[k].st = "error" /\ Update(k, t) /\ HandIn(j, k, "resume")
  BY DEF Resume, MayResume, WorkerInvariant
<1>2. \A l \in Key : l # k => task'[l] = task[l]
  BY <1>1 DEF Update, TypeOK
<1>3. disk' = disk \/ disk' = task'
  BY <1>1 DEF Update, Save
<1>4. ASSUME NEW l \in Key, l # k
      PROVE  Active(l)' = Active(l)
  <2>1. /\ pc[j] = "none" /\ key'[j] = k
        /\ \A i \in Job : i # j => pc'[i] = pc[i] /\ key'[i] = key[i]
    BY <1>1, HandInFacts
  <2> QED
    BY <2>1, <1>4 DEF Active
<1>5. ASSUME NEW l \in Key
      PROVE  StepKeeps(l)
  BY <1>1, <1>2, <1>4 DEF StepKeeps, Idle
<1> QED
  BY <1>3, <1>5 DEF SuccessStep, FileFollows

(* A thread leaves a success alone, and works on no task that is idle. *)
LEMMA ThreadSuccess ==
  ASSUME WorkerInvariant, NEW j \in Job, key' = key,
         \A i \in Job : i # j => pc'[i] = pc[i],
         \A l \in Key : l # key[j] => task'[l] = task[l],
         Busy(j) \/ task' = task,
         Busy(j)' => Busy(j),
         task[key[j]].st = "success" =>
           task'[key[j]].st = "success" /\ task'[key[j]].old = task[key[j]].old,
         disk' = disk \/ disk' = task'
  PROVE  SuccessStep
<1>1. ASSUME NEW l \in Key
      PROVE  Active(l)' \subseteq Active(l)
  BY DEF Active, Busy
<1>2. ASSUME NEW l \in Key
      PROVE  StepKeeps(l)
  <2>1. Idle(l) => task'[l] = task[l]
    BY DEF Idle, Active, Busy
  <2>2. Idle(l) => Idle(l)'
    BY <2>1, <1>1 DEF Idle
  <2>3. task[l].st = "success" => task'[l].st = "success" /\ task'[l].old = task[l].old
    BY DEF WorkerInvariant, TypeOK
  <2> QED
    BY <2>2, <2>3 DEF StepKeeps
<1> QED
  BY <1>2 DEF SuccessStep, FileFollows

LEMMA StepSuccess ==
  ASSUME WorkerInvariant, NEW j \in Job, Step(j)
  PROVE  SuccessStep
<1> USE DEF WorkerInvariant
<1>0. TypeOK /\ key[j] \in Key /\ key' = key
  BY DEF TypeOK, Step, Enqueue, Start, Begin, Progress, Finish, Clear, End, jobVars
<1>1. CASE Enqueue(j) \/ Start(j) \/ End(j)
  <2>1. /\ UNCHANGED <<task, disk>>
        /\ \A i \in Job : i # j => pc'[i] = pc[i]
        /\ Busy(j)' => Busy(j)
    BY <1>0, <1>1 DEF Enqueue, Start, End, Goto, Busy, TypeOK
  <2> QED
    BY <2>1, <1>0, ThreadSuccess
<1>2. ASSUME NEW from \in {"start", "work", "clear"},
             NEW to \in {"work", "clear", "end"}, Goto(j, from, to),
             NEW t \in Tasks, Update(key[j], t),
             task[key[j]].st = "success" => t.st = "success" /\ t.old = task[key[j]].old
      PROVE  SuccessStep
  <2>1. pc[j] = from /\ pc'[j] = to /\ \A i \in Job : i # j => pc'[i] = pc[i]
    BY <1>0, <1>2, GotoFacts
  <2>2. Busy(j)
    BY <2>1 DEF Busy
  <2>3. /\ task'[key[j]] = t
        /\ \A l \in Key : l # key[j] => task'[l] = task[l]
        /\ disk' = disk \/ disk' = task'
    BY <1>2, <2>2, BusyUpdates
  <2> QED
    BY <2>1, <2>2, <2>3, <1>0, <1>2, ThreadSuccess
<1>3. CASE Begin(j)
  <2> DEFINE t == [task[key[j]] EXCEPT !.st = "running", !.err = "none"]
  <2>1. Goto(j, "start", "work") /\ Update(key[j], t)
    BY <1>3 DEF Begin
  <2>2. t \in Tasks
    <3>1. task[key[j]] \in Tasks
      BY <1>0 DEF TypeOK
    <3> QED
      BY <3>1 DEF Tasks, Unfinished
  <2>3. task[key[j]].st # "success"
    BY <2>1 DEF Goto, Busy, BusyOccupies, Occupied, Unfinished
  <2> QED
    BY <2>1, <2>2, <2>3, <1>2
<1>4. CASE Progress(j)
  <2>1. Busy(j) /\ UNCHANGED jobVars /\ Update(key[j], task[key[j]]) /\ task[key[j]] \in Tasks
    BY <1>0, <1>4 DEF Progress, Busy, TypeOK
  <2>2. /\ task'[key[j]] = task[key[j]]
        /\ \A l \in Key : l # key[j] => task'[l] = task[l]
        /\ disk' = disk \/ disk' = task'
    BY <2>1, BusyUpdates
  <2>3. pc' = pc /\ (Busy(j)' => Busy(j))
    BY <2>1 DEF jobVars, Busy
  <2> QED
    BY <2>1, <2>2, <2>3, <1>0, ThreadSuccess
<1>5. CASE Finish(j)
  <2>1. Goto(j, "work", IF kind[j] = "run" THEN "end" ELSE "clear")
    BY <1>5 DEF Finish
  <2>2. task[key[j]].st # "success"
    BY <2>1 DEF Goto, Busy, BusyOccupies, Occupied, Unfinished
  <2>3. PICK t \in Tasks : Update(key[j], t)
    BY <1>0, <1>5, FinishedTask
  <2>4. \E to \in {"clear", "end"} : Goto(j, "work", to)
    BY <2>1
  <2> QED
    BY <2>2, <2>3, <2>4, <1>2
<1>6. CASE Clear(j)
  <2> DEFINE t == [task[key[j]] EXCEPT !.resuming = FALSE]
  <2>1. Goto(j, "clear", "end") /\ Update(key[j], t)
    BY <1>6 DEF Clear
  <2>2. t \in Tasks /\ t.st = task[key[j]].st /\ t.old = task[key[j]].old
    <3>1. task[key[j]] \in Tasks
      BY <1>0 DEF TypeOK
    <3> QED
      BY <3>1 DEF Tasks
  <2> QED
    BY <2>1, <2>2, <1>2
<1> QED
  BY <1>1, <1>3, <1>4, <1>5, <1>6 DEF Step

LEMMA TimeSuccess ==
  ASSUME WorkerInvariant, NEW k \in Key, WindowEnds(k) \/ RetentionEnds(k)
  PROVE  SuccessStep
<1>1. task \in [Key -> Tasks] /\ disk \in [Key -> Tasks]
  BY DEF WorkerInvariant, TypeOK
<1>2. \A l \in Key : Active(l)' = Active(l)
  BY DEF WindowEnds, RetentionEnds, jobVars, Active
<1>3. CASE WindowEnds(k)
  <2>1. ASSUME NEW l \in Key
        PROVE  /\ task'[l].st = task[l].st /\ task'[l].old = task[l].old
               /\ disk'[l].st = disk[l].st /\ disk'[l].old = disk[l].old
    <3>1. task[l] \in Tasks /\ disk[l] \in Tasks
      BY <1>1
    <3>2. /\ task' = [task EXCEPT ![k].fresh = FALSE]
          /\ disk' = [disk EXCEPT ![k].fresh = FALSE]
      BY <1>3 DEF WindowEnds
    <3> QED
      BY <3>1, <3>2, <1>1 DEF Tasks
  <2> QED
    BY <2>1, <1>2 DEF SuccessStep, FileFollows, StepKeeps, Idle
<1>4. CASE RetentionEnds(k)
  <2>1. ASSUME NEW l \in Key
        PROVE  /\ task'[l].st = task[l].st /\ (task[l].old => task'[l].old)
               /\ disk'[l].st = disk[l].st
               /\ disk'[l].old => disk[l].old \/ task'[l].old
    <3>1. task[l] \in Tasks /\ disk[l] \in Tasks
      BY <1>1
    <3>2. /\ task' = [task EXCEPT ![k].old = TRUE]
          /\ disk' = [disk EXCEPT ![k].old = @ \/ disk[k].st # "absent"]
      BY <1>4 DEF RetentionEnds
    <3> QED
      BY <3>1, <3>2, <1>1 DEF Tasks
  <2> QED
    BY <2>1, <1>2 DEF SuccessStep, FileFollows, StepKeeps, Idle
<1> QED
  BY <1>3, <1>4
(* Every step but a restart. *)
LEMMA NextSuccess ==
  ASSUME WorkerInvariant, [Next]_vars, ~Restart
  PROVE  SuccessStep
<1>1. ASSUME NEW k \in Key, SubmitAgain(k)
      PROVE  SuccessStep
  BY <1>1, CleanUpSuccess DEF SubmitAgain
<1>2. ASSUME NEW k \in Key, NEW p \in Prompt, SubmitDuplicate(k, p)
      PROVE  SuccessStep
  BY <1>2, CleanUpSuccess DEF SubmitDuplicate
<1>3. ASSUME NEW k \in Key, NEW p \in Prompt, NEW j \in Job, SubmitNew(k, p, j)
      PROVE  SuccessStep
  BY <1>3, SubmitNewSuccess
<1>4. ASSUME NEW k \in Key, NEW j \in Job, Resume(k, j)
      PROVE  SuccessStep
  BY <1>4, ResumeSuccess
<1>5. CASE List
  BY <1>5, CleanUpSuccess DEF List
<1>6. ASSUME NEW j \in Job, Step(j)
      PROVE  SuccessStep
  BY <1>6, StepSuccess
<1>7. ASSUME NEW k \in Key, WindowEnds(k) \/ RetentionEnds(k)
      PROVE  SuccessStep
  BY <1>7, TimeSuccess
<1>8. CASE UNCHANGED vars
  BY <1>8 DEF vars, SuccessStep, FileFollows, StepKeeps, Idle, Active
<1> QED
  BY <1>1, <1>2, <1>3, <1>4, <1>5, <1>6, <1>7, <1>8 DEF Next, Client, Environment

LEMMA RestartSuccess ==
  ASSUME TypeOK, Restart, NEW k \in Key, disk[k].st = "success"
  PROVE  \/ task'[k].st = "success" /\ task'[k].old = disk[k].old
         \/ task'[k].st = "absent" /\ disk[k].old /\ Active(k)' = {}
<1>1. disk[k] \in Tasks
  BY DEF TypeOK
<1>2. /\ Recovered(Loaded(disk[k])).st = "success"
      /\ Recovered(Loaded(disk[k])).old = disk[k].old
  BY <1>1 DEF Recovered, Loaded, Tasks, Unfinished
<1>3. \A j \in Job : pc'[j] \in {"none", "lost"}
  BY DEF Restart
<1>4. Active(k)' = {}
  BY <1>3 DEF Active
<1> QED
  BY <1>2, <1>4, RestartFacts, AbsentTyped DEF Terminal

LEMMA NextSuccessInMemory ==
  ASSUME WorkerInvariant, SuccessInMemory, [Next]_vars
  PROVE  SuccessInMemory'
<1>1. CASE disk' = task'
  BY <1>1 DEF SuccessInMemory
<1>2. CASE Restart /\ disk' # task'
  <2>1. TypeOK /\ disk' = disk
    BY <1>2, RestartFacts DEF WorkerInvariant
  <2>2. ASSUME NEW k \in Key, disk'[k].st = "success"
        PROVE  (task'[k].st = "success" /\ (disk'[k].old => task'[k].old)) \/ Idle(k)'
    BY <1>2, <2>1, <2>2, RestartSuccess DEF Idle
  <2> QED
    BY <2>2 DEF SuccessInMemory
<1>3. CASE ~Restart /\ disk' # task'
  <2>1. SuccessStep
    BY <1>3, NextSuccess
  <2>2. ASSUME NEW k \in Key, disk'[k].st = "success"
        PROVE  (task'[k].st = "success" /\ (disk'[k].old => task'[k].old)) \/ Idle(k)'
    <3>1. /\ disk[k].st = "success"
          /\ disk'[k].old => disk[k].old \/ task'[k].old
          /\ StepKeeps(k)
      BY <1>3, <2>1, <2>2 DEF SuccessStep, FileFollows
    <3>2. CASE Idle(k)
      BY <3>1, <3>2, <1>3 DEF StepKeeps
    <3>3. CASE task[k].st = "success" /\ (disk[k].old => task[k].old)
      BY <3>1, <3>3, <1>3 DEF StepKeeps
    <3> QED
      BY <3>1, <3>2, <3>3 DEF SuccessInMemory
  <2> QED
    BY <2>2 DEF SuccessInMemory
<1> QED
  BY <1>1, <1>2, <1>3

(* One step of SuccessIsFinal. *)
SuccessKept ==
  \A k \in Key : {task[k].st, disk[k].st} = {"success"} =>
    task'[k].st = "success" \/ (task[k].old /\ task'[k].st # "error")

LEMMA NextSuccessKept ==
  ASSUME WorkerInvariant, SuccessInMemory, [Next]_vars
  PROVE  SuccessKept
<1> SUFFICES ASSUME NEW k \in Key, task[k].st = "success", disk[k].st = "success"
             PROVE  task'[k].st = "success" \/ (task[k].old /\ task'[k].st # "error")
  BY DEF SuccessKept
<1>1. CASE Restart
  <2>1. disk[k].old => task[k].old
    BY DEF SuccessInMemory, Idle
  <2> QED
    BY <1>1, <2>1, RestartSuccess DEF WorkerInvariant
<1>2. CASE ~Restart
  BY <1>2, NextSuccess DEF SuccessStep, StepKeeps
<1> QED
  BY <1>1, <1>2

-----------------------------------------------------------------------------
(* Where submissions are saved, nothing unfinished is without a thread. *)

LEMMA HandInUnfinished ==
  ASSUME WorkerInvariant, UnfinishedHasWorker,
         NEW k \in Key, NEW j \in Job, NEW what \in {"run", "resume"}, HandIn(j, k, what),
         \A l \in Key : l # k /\ task'[l].st \in Unfinished => task[l].st \in Unfinished
  PROVE  UnfinishedHasWorker'
<1>1. /\ pc[j] = "none" /\ pc'[j] = "hand" /\ key'[j] = k
      /\ \A i \in Job : i # j => pc'[i] = pc[i] /\ key'[i] = key[i]
  BY HandInFacts DEF WorkerInvariant
<1>2. j \in Active(k)'
  BY <1>1 DEF Active
<1>3. ASSUME NEW l \in Key
      PROVE  Active(l) \subseteq Active(l)'
  BY <1>1 DEF Active
<1> QED
  BY <1>2, <1>3 DEF UnfinishedHasWorker

LEMMA ThreadUnfinished ==
  ASSUME WorkerInvariant, UnfinishedHasWorker, NEW j \in Job, key' = key,
         \A i \in Job : i # j => pc'[i] = pc[i],
         \A l \in Key : l # key[j] => task'[l] = task[l],
         \/ Busy(j)'
         \/ task'[key[j]].st \notin Unfinished
         \/ ~Busy(j) /\ task' = task
  PROVE  UnfinishedHasWorker'
<1> SUFFICES ASSUME NEW l \in Key, task'[l].st \in Unfinished
             PROVE  Active(l)' # {}
  BY DEF UnfinishedHasWorker
<1>1. CASE l = key[j] /\ Busy(j)'
  BY <1>1 DEF Active, Busy
<1>2. CASE (l # key[j] \/ ~Busy(j)) /\ task'[l] = task[l]
  <2>1. PICK i \in Active(l) : TRUE
    BY <1>2 DEF UnfinishedHasWorker
  <2>2. i # j /\ i \in Active(l)'
    BY <1>2, <2>1 DEF Active, Busy
  <2> QED
    BY <2>2
<1> QED
  BY <1>1, <1>2

LEMMA StepUnfinished ==
  ASSUME WorkerInvariant, UnfinishedHasWorker, NEW j \in Job, Step(j)
  PROVE  UnfinishedHasWorker'
<1> USE DEF WorkerInvariant
<1>0. TypeOK /\ key[j] \in Key /\ key' = key
  BY DEF TypeOK, Step, Enqueue, Start, Begin, Progress, Finish, Clear, End, jobVars
<1>1. CASE Enqueue(j) \/ Start(j)
  <2>1. task' = task /\ \E from \in {"hand", "queue"}, to \in {"queue", "start", "work"} : Goto(j, from, to)
    BY <1>1 DEF Enqueue, Start, FirstStep
  <2>2. Busy(j)' /\ \A i \in Job : i # j => pc'[i] = pc[i]
    BY <1>0, <2>1, GotoFacts DEF Busy
  <2> QED
    BY <1>0, <2>1, <2>2, ThreadUnfinished
<1>2. CASE Begin(j)
  <2>1. Busy(j)' /\ \A i \in Job : i # j => pc'[i] = pc[i]
    BY <1>0, <1>2, GotoFacts DEF Begin, Busy
  <2>2. \A l \in Key : l # key[j] => task'[l] = task[l]
    BY <1>0, <1>2 DEF Begin, Update, TypeOK
  <2> QED
    BY <1>0, <2>1, <2>2, ThreadUnfinished
<1>3. CASE Progress(j)
  <2>1. Busy(j)' /\ pc' = pc
    BY <1>3 DEF Progress, Busy, jobVars
  <2>2. \A l \in Key : l # key[j] => task'[l] = task[l]
    BY <1>0, <1>3 DEF Progress, Update, TypeOK
  <2> QED
    BY <1>0, <2>1, <2>2, ThreadUnfinished
<1>4. CASE Finish(j)
  <2>1. Busy(j) /\ \A i \in Job : i # j => pc'[i] = pc[i]
    BY <1>0, <1>4 DEF Finish, Goto, Busy, TypeOK
  <2>2. PICK t \in Tasks : Update(key[j], t) /\ t.st \in Terminal
    BY <1>0, <1>4, FinishedTask
  <2>3. /\ task'[key[j]] = t
        /\ \A l \in Key : l # key[j] => task'[l] = task[l]
    BY <2>1, <2>2, BusyUpdates
  <2>4. task'[key[j]].st \notin Unfinished
    BY <2>2, <2>3 DEF Terminal, Unfinished
  <2> QED
    BY <1>0, <2>1, <2>3, <2>4, ThreadUnfinished
<1>5. CASE Clear(j)
  <2>1. /\ Busy(j) /\ \A i \in Job : i # j => pc'[i] = pc[i]
        /\ task[key[j]].st \in Terminal
    BY <1>0, <1>5 DEF Clear, Goto, Busy, TypeOK, BusyOccupies, Occupied
  <2>2. /\ task'[key[j]].st = task[key[j]].st
        /\ \A l \in Key : l # key[j] => task'[l] = task[l]
    <3>1. task \in [Key -> Tasks] /\ task[key[j]] \in Tasks
      BY <1>0 DEF TypeOK
    <3> QED
      BY <3>1, <1>0, <1>5 DEF Clear, Update, Tasks
  <2>3. task'[key[j]].st \notin Unfinished
    BY <2>1, <2>2 DEF Terminal, Unfinished
  <2> QED
    BY <1>0, <2>1, <2>2, <2>3, ThreadUnfinished
<1>6. CASE End(j)
  <2>1. task' = task /\ ~Busy(j) /\ \A i \in Job : i # j => pc'[i] = pc[i]
    BY <1>0, <1>6 DEF End, Goto, Busy, TypeOK
  <2> QED
    BY <1>0, <2>1, ThreadUnfinished
<1> QED
  BY <1>1, <1>2, <1>3, <1>4, <1>5, <1>6 DEF Step

LEMMA NextUnfinished ==
  ASSUME ~SubmitSaveFails, WorkerInvariant, UnfinishedHasWorker, [Next]_vars
  PROVE  UnfinishedHasWorker'
<1>0. /\ TypeOK /\ Absent.st \notin Unfinished
      /\ \A k \in Key : Cleaned(task)[k].st \in Unfinished => task[k].st \in Unfinished
  BY CleanedFacts, AbsentTyped DEF WorkerInvariant, Unfinished
<1>1. ASSUME task' = Cleaned(task), UNCHANGED jobVars
      PROVE  UnfinishedHasWorker'
  BY <1>0, <1>1 DEF UnfinishedHasWorker, Active, jobVars
<1>2. ASSUME NEW k \in Key, NEW p \in Prompt, NEW j \in Job, SubmitNew(k, p, j)
      PROVE  UnfinishedHasWorker'
  <2>1. HandIn(j, k, "run") /\ task' = [Cleaned(task) EXCEPT ![k] = New(p)]
    BY <1>2 DEF SubmitNew
  <2>2. \A l \in Key : l # k => task'[l] = Cleaned(task)[l]
    BY <1>0, <2>1, CleanedFacts
  <2> QED
    BY <1>0, <2>1, <2>2, HandInUnfinished
<1>3. ASSUME NEW k \in Key, NEW j \in Job, Resume(k, j)
      PROVE  UnfinishedHasWorker'
  <2>1. HandIn(j, k, "resume") /\ \A l \in Key : l # k => task'[l] = task[l]
    BY <1>0, <1>3 DEF Resume, Update, TypeOK
  <2> QED
    BY <2>1, HandInUnfinished
<1>4. ASSUME NEW k \in Key, WindowEnds(k) \/ RetentionEnds(k)
      PROVE  UnfinishedHasWorker'
  <2>1. \A l \in Key : task'[l].st = task[l].st
    BY <1>0, <1>4, TimeFacts
  <2>2. \A l \in Key : Active(l)' = Active(l)
    BY <1>4 DEF WindowEnds, RetentionEnds, jobVars, Active
  <2> QED
    BY <2>1, <2>2 DEF UnfinishedHasWorker
<1>5. CASE Restart
  <2>1. ASSUME NEW k \in Key
        PROVE  Recovered(Loaded(disk[k])).st \notin Unfinished
    <3>1. disk[k] \in Tasks
      BY <1>0 DEF TypeOK
    <3> QED
      BY <3>1 DEF Recovered, Loaded, Tasks, Unfinished
  <2> QED
    BY <1>0, <1>5, <2>1, RestartFacts DEF UnfinishedHasWorker
<1>6. CASE UNCHANGED vars
  BY <1>6 DEF vars, UnfinishedHasWorker, Active
<1>7. ASSUME NEW j \in Job, Step(j)
      PROVE  UnfinishedHasWorker'
  BY <1>7, StepUnfinished
<1> QED
  BY <1>1, <1>2, <1>3, <1>4, <1>5, <1>6, <1>7
     DEF Next, Client, Environment, SubmitAgain, SubmitDuplicate, List

-----------------------------------------------------------------------------
(* Until the first restart the prompts of the tasks in the window are      *)
(* known, and differ.                                                      *)
PromptInvariant == restarts = 0 => PromptKept /\ OncePerWindow

LEMMA CleanUpPrompt ==
  ASSUME TypeOK, PromptInvariant, task' = Cleaned(task), UNCHANGED <<restarts, asked>>
  PROVE  PromptInvariant'
<1>1. \A k \in Key : task'[k].fresh => task'[k] = task[k]
  BY CleanedFacts, AbsentTyped
<1> QED
  BY <1>1 DEF PromptInvariant, PromptKept, OncePerWindow

LEMMA SubmitNewPrompt ==
  ASSUME TypeOK, PromptInvariant,
         NEW k \in Key, NEW p \in Prompt, NEW j \in Job, SubmitNew(k, p, j)
  PROVE  PromptInvariant'
<1>1. /\ Duplicates(Cleaned(task), p) = {}
      /\ task' = [Cleaned(task) EXCEPT ![k] = New(p)]
      /\ asked' = [asked EXCEPT ![k] = p]
      /\ restarts' = restarts
  BY DEF SubmitNew
<1>2. /\ task'[k] = New(p) /\ asked'[k] = p
      /\ \A l \in Key : l # k => task'[l] = Cleaned(task)[l] /\ asked'[l] = asked[l]
  BY <1>1, CleanedFacts DEF TypeOK
<1>3. New(p).prompt = p /\ ~New(p).old /\ New(p).st # "absent"
  BY DEF New, Absent
<1>4. ASSUME NEW l \in Key, l # k, task'[l].fresh
      PROVE  task'[l] = task[l] /\ task[l].prompt # p
  <2>1. task'[l] = task[l] /\ task[l] = Cleaned(task)[l]
    BY <1>2, <1>4, CleanedFacts, AbsentTyped
  <2> QED
    BY <1>1, <1>4, <2>1 DEF Duplicates
<1> SUFFICES ASSUME restarts = 0
             PROVE  (PromptKept /\ OncePerWindow)'
  BY <1>1 DEF PromptInvariant
<1>5. PromptKept'
  BY <1>2, <1>3, <1>4 DEF PromptInvariant, PromptKept
<1>6. OncePerWindow'
  <2>1. ASSUME NEW l \in Key, l # k, task'[l].fresh
        PROVE  asked'[l] = asked[l] /\ asked[l] # p /\ task[l].fresh
    BY <1>2, <1>4, <2>1 DEF PromptInvariant, PromptKept
  <2> QED
    BY <1>2, <2>1 DEF PromptInvariant, OncePerWindow
<1> QED
  BY <1>5, <1>6

(* An update keeps the prompt and the age of its task. *)
LEMMA UpdatePrompt ==
  ASSUME TypeOK, PromptInvariant, UNCHANGED <<restarts, asked>>,
         NEW k \in Key, NEW t, Update(k, t),
         t.fresh = task[k].fresh, t.prompt = task[k].prompt,
         t.old => task[k].old, t.st # "absent" \/ task[k].st = "absent"
  PROVE  PromptInvariant'
<1>1. \A l \in Key : l # k => task'[l] = task[l]
  BY DEF Update, TypeOK
<1>2. task'[k] = IF task[k].st = "absent" THEN task[k] ELSE t
  BY DEF Update, TypeOK
<1> QED
  BY <1>1, <1>2 DEF PromptInvariant, PromptKept, OncePerWindow

LEMMA StepPrompt ==
  ASSUME TypeOK, PromptInvariant, NEW j \in Job, Step(j)
  PROVE  PromptInvariant'
<1>0. key[j] \in Key /\ task[key[j]] \in Tasks
  BY DEF TypeOK
<1> DEFINE t == task[key[j]]
<1>1. UNCHANGED <<restarts, asked>>
  BY DEF Step, Enqueue, Start, Begin, Progress, Finish, Clear, End
<1>2. CASE Enqueue(j) \/ Start(j) \/ End(j)
  BY <1>1, <1>2 DEF Enqueue, Start, End, PromptInvariant, PromptKept, OncePerWindow
<1>3. CASE Begin(j)
  <2>1. Update(key[j], [t EXCEPT !.st = "running", !.err = "none"])
    BY <1>3 DEF Begin
  <2> QED
    BY <1>0, <1>1, <2>1, UpdatePrompt DEF Tasks
<1>4. CASE Progress(j)
  <2>1. Update(key[j], t)
    BY <1>4 DEF Progress
  <2> QED
    BY <1>0, <1>1, <2>1, UpdatePrompt
<1>5. CASE Finish(j)
  <2>1. CASE Update(key[j], [t EXCEPT !.st = "success", !.err = "none"])
    BY <1>0, <1>1, <2>1, UpdatePrompt DEF Tasks
  <2>2. ASSUME NEW e \in {"timeout", "other"},
               Update(key[j], [t EXCEPT !.st = "error", !.err = e])
        PROVE  PromptInvariant'
    BY <1>0, <1>1, <2>2, UpdatePrompt DEF Tasks
  <2>3. CASE Update(key[j], [t EXCEPT !.st = "error", !.err = "timeout", !.conv = TRUE])
    BY <1>0, <1>1, <2>3, UpdatePrompt DEF Tasks
  <2> QED
    BY <1>5, <2>1, <2>2, <2>3 DEF Finish
<1>6. CASE Clear(j)
  <2>1. Update(key[j], [t EXCEPT !.resuming = FALSE])
    BY <1>6 DEF Clear
  <2> QED
    BY <1>0, <1>1, <2>1, UpdatePrompt DEF Tasks
<1> QED
  BY <1>2, <1>3, <1>4, <1>5, <1>6 DEF Step

LEMMA TimePrompt ==
  ASSUME TypeOK, PromptInvariant, NEW k \in Key, WindowEnds(k) \/ RetentionEnds(k)
  PROVE  PromptInvariant'
<1>1. UNCHANGED <<restarts, asked>>
  BY DEF WindowEnds, RetentionEnds
<1> QED
  BY <1>1, TimeFacts DEF PromptInvariant, PromptKept, OncePerWindow

LEMMA NextPrompt ==
  ASSUME TypeOK, PromptInvariant, [Next]_vars
  PROVE  PromptInvariant'
<1>1. ASSUME NEW k \in Key, SubmitAgain(k)
      PROVE  PromptInvariant'
  BY <1>1, CleanUpPrompt DEF SubmitAgain
<1>2. ASSUME NEW k \in Key, NEW p \in Prompt, SubmitDuplicate(k, p)
      PROVE  PromptInvariant'
  BY <1>2, CleanUpPrompt DEF SubmitDuplicate
<1>3. ASSUME NEW k \in Key, NEW p \in Prompt, NEW j \in Job, SubmitNew(k, p, j)
      PROVE  PromptInvariant'
  BY <1>3, SubmitNewPrompt
<1>4. ASSUME NEW k \in Key, NEW j \in Job, Resume(k, j)
      PROVE  PromptInvariant'
  <2> DEFINE t == [task[k] EXCEPT !.st = "running", !.err = "none",
                                  !.resuming = TRUE, !.old = FALSE]
  <2>1. task[k] \in Tasks /\ Update(k, t) /\ UNCHANGED <<restarts, asked>>
    BY <1>4 DEF Resume, TypeOK
  <2>2. t.fresh = task[k].fresh /\ t.prompt = task[k].prompt /\ ~t.old /\ t.st # "absent"
    BY <2>1 DEF Tasks
  <2> QED
    BY <2>1, <2>2, UpdatePrompt
<1>5. CASE List
  BY <1>5, CleanUpPrompt DEF List
<1>6. ASSUME NEW j \in Job, Step(j)
      PROVE  PromptInvariant'
  BY <1>6, StepPrompt
<1>7. ASSUME NEW k \in Key, WindowEnds(k) \/ RetentionEnds(k)
      PROVE  PromptInvariant'
  BY <1>7, TimePrompt
<1>8. CASE Restart
  <2>1. restarts' # 0
    <3>1. restarts \in 0..MaxRestarts /\ restarts' = restarts + 1
      BY <1>8 DEF Restart, TypeOK
    <3> QED
      BY <3>1, BoundsAssumption DEF BoundsAssumption
  <2> QED
    BY <2>1 DEF PromptInvariant
<1>9. CASE UNCHANGED vars
  BY <1>9 DEF vars, PromptInvariant, PromptKept, OncePerWindow
<1> QED
  BY <1>1, <1>2, <1>3, <1>4, <1>5, <1>6, <1>7, <1>8, <1>9 DEF Next, Client, Environment

-----------------------------------------------------------------------------
(* The theorems. *)

(* The model is well typed. *)
THEOREM TypeCorrect == Spec => []TypeOK
<1>1. Spec => []WorkerInvariant
  BY InitWorker, NextWorker, PTL DEF Spec
<1>2. WorkerInvariant => TypeOK
  BY DEF WorkerInvariant
<1> QED
  BY <1>1, <1>2, PTL

(* At most one thread works on a task at a time, whatever is submitted     *)
(* again, resumed or restarted and whichever saves fail: a resumed poll is *)
(* handed in only when the generation before it has settled.               *)
THEOREM OneThreadPerTask == Spec => []OneWorker
<1>1. Spec => []WorkerInvariant
  BY InitWorker, NextWorker, PTL DEF Spec
<1>2. ASSUME WorkerInvariant, NEW k \in Key
      PROVE  Cardinality(Active(k)) <= 1
  <2>1. CASE Active(k) = {}
    BY <2>1, FS_EmptySet
  <2>2. CASE Active(k) # {}
    <3>1. PICK j \in Active(k) : TRUE
      BY <2>2
    <3>2. Active(k) = {j}
      BY <1>2, <3>1 DEF WorkerInvariant, BusyAlone, Active, Busy
    <3> QED
      BY <3>2, FS_Singleton
  <2> QED
    BY <2>1, <2>2
<1>3. WorkerInvariant => OneWorker
  BY <1>2 DEF OneWorker
<1> QED
  BY <1>1, <1>3, PTL

(* A success that the file and the memory have is not taken back: late     *)
(* threads, resumed polls, failed saves and restarts leave it, until its   *)
(* retention ends.                                                         *)
THEOREM SuccessStands == Spec => SuccessIsFinal
<1>1. Init => SuccessInMemory
  BY DEF Init, SuccessInMemory, Absent
<1>2. WorkerInvariant /\ SuccessInMemory /\ [Next]_vars => SuccessInMemory'
  BY NextSuccessInMemory
<1>3. WorkerInvariant /\ SuccessInMemory /\ [Next]_vars => [SuccessKept]_vars
  BY NextSuccessKept
<1> QED
  BY InitWorker, NextWorker, <1>1, <1>2, <1>3, PTL DEF Spec, SuccessIsFinal, SuccessKept

(* A task that could be resumed, and was saved so, can be after a restart. *)
THEOREM ResumableStands == Spec => ResumableSurvivesRestart
<1>1. Spec => []WorkerInvariant
  BY InitWorker, NextWorker, PTL DEF Spec
<1> DEFINE Kept == restarts' # restarts =>
             \A k \in Key : MayResume(task[k]) /\ disk[k] = task[k] /\ ~task[k].old
                              => MayResume(task'[k])
<1>2. ASSUME WorkerInvariant, [Next]_vars
      PROVE  [Kept]_vars
  <2> SUFFICES ASSUME restarts' # restarts, NEW k \in Key,
                      MayResume(task[k]), disk[k] = task[k], ~task[k].old
               PROVE  MayResume(task'[k])
    OBVIOUS
  <2>1. Restart
    BY <1>2 DEF Next, Client, Environment, SubmitAgain, SubmitDuplicate, SubmitNew, Resume,
       List, Step, Enqueue, Start, Begin, Progress, Finish, Clear, End, WindowEnds,
       RetentionEnds, vars
  <2>2. disk[k] \in Tasks
    BY <1>2 DEF WorkerInvariant, TypeOK
  <2>3. /\ MayResume(Recovered(Loaded(disk[k]))) /\ ~Recovered(Loaded(disk[k])).old
    BY <2>2 DEF Recovered, Loaded, MayResume, Tasks, Unfinished
  <2> QED
    BY <1>2, <2>1, <2>3, RestartFacts DEF WorkerInvariant
<1> QED
  BY <1>1, <1>2, PTL DEF Spec, ResumableSurvivesRestart

(* While a task is queued or running there is a thread for it, provided    *)
(* that the saves of submissions succeed: the others may fail.             *)
THEOREM NoTaskStuck ==
  ASSUME ~SubmitSaveFails
  PROVE  Spec => []UnfinishedHasWorker
<1>1. Init => UnfinishedHasWorker
  <2>1. Init => \A k \in Key : task[k] = Absent
    BY DEF Init
  <2> QED
    BY <2>1, AbsentTyped DEF UnfinishedHasWorker, Unfinished
<1>2. WorkerInvariant /\ UnfinishedHasWorker /\ [Next]_vars => UnfinishedHasWorker'
  BY NextUnfinished
<1> QED
  BY InitWorker, NextWorker, <1>1, <1>2, PTL DEF Spec

(* Until the process restarts, no two tasks of one window are created for  *)
(* one prompt; a restart forgets the prompts.                              *)
THEOREM PromptsPaidOnce == Spec => [](restarts = 0 => OncePerWindow)
<1>1. Init => PromptInvariant
  <2>1. Init => \A k \in Key : task[k] = Absent
    BY DEF Init
  <2> QED
    BY <2>1, AbsentTyped DEF PromptInvariant, PromptKept, OncePerWindow
<1>2. WorkerInvariant /\ PromptInvariant /\ [Next]_vars => PromptInvariant'
  BY NextPrompt DEF WorkerInvariant
<1>3. PromptInvariant => (restarts = 0 => OncePerWindow)
  BY DEF PromptInvariant
<1> QED
  BY InitWorker, NextWorker, <1>1, <1>2, <1>3, PTL DEF Spec
=============================================================================
