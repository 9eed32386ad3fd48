----------------------------- MODULE ImageTasks -----------------------------
(***************************************************************************)
(* Image tasks (services/image_task_service.py): submission with           *)
(* deduplication, the threads that carry tasks out, resumed polling of     *)
(* tasks that timed out, retention, and what a restart makes of the tasks  *)
(* it finds in image_tasks.json.                                           *)
(*                                                                         *)
(* The threads are handed to the task queue, of which the specification    *)
(* JobQueue is used here: module TaskQueue implements it.  Each action is  *)
(* one section under ImageTaskService._lock with the save it ends with, or *)
(* one step of the queue.  All tasks are of one owner, mode and model.     *)
(***************************************************************************)
EXTENDS Naturals, FiniteSets

CONSTANTS
  Key,           \* owner:client_task_id
  Prompt,
  Job,           \* jobs handed to the queue; each is used once
  Workers,       \* max_workers of the queue
  MaxRestarts,   \* bound: how often the service restarts
  UpdateSaveFails,  \* the save of _update_task and of the clean-up of a resume may fail
  SubmitSaveFails   \* the save of _submit and of resume_poll may fail

ASSUME BoundsAssumption == Workers \in Nat /\ MaxRestarts \in Nat
ASSUME SwitchAssumption == {UpdateSaveFails, SubmitSaveFails} \subseteq BOOLEAN

VARIABLES
  task,      \* _tasks: a record per key
  disk,      \* image_tasks.json
  pc,        \* where the thread of each job is
  key,       \* the task each job works on
  kind,      \* "run" (_run_task) or "resume" (_run_resume_poll)
  state,     \* the queue's view of each job
  restarts,
  asked      \* history: the prompt each task was created for

vars == <<task, disk, pc, key, kind, state, restarts, asked>>

Queue == INSTANCE JobQueue WITH Capacity <- Workers

(* The fields that decide anything.  "fresh": created within               *)
(* PROMPT_DEDUP_WINDOW_SECS; "old": updated before the retention cutoff.   *)
(* The prompt is "" when it is not known.                                  *)
Absent == [st |-> "absent", err |-> "none", conv |-> FALSE, resuming |-> FALSE,
           prompt |-> "", fresh |-> FALSE, old |-> FALSE]

New(p) == [Absent EXCEPT !.st = "queued", !.prompt = p, !.fresh = TRUE]

Terminal == {"success", "error"}
Unfinished == {"queued", "running"}

Init ==
  /\ task = [k \in Key |-> Absent]
  /\ disk = task
  /\ pc = [j \in Job |-> "none"]
  /\ key \in {[j \in Job |-> k] : k \in Key}
  /\ kind = [j \in Job |-> "run"]
  /\ Queue!Init
  /\ restarts = 0
  /\ asked = [k \in Key |-> ""]

(* _cleanup_locked *)
Cleaned(ts) == [k \in Key |-> IF ts[k].st \in Terminal /\ ts[k].old THEN Absent ELSE ts[k]]

(* _save_locked, which writes all tasks, or raises and writes none. *)
Save(mayFail) == disk' = task' \/ (mayFail /\ UNCHANGED disk)

(* _update_task: an unknown key is left alone, a failed save tolerated. *)
Update(k, t) ==
  /\ task' = IF task[k].st = "absent" THEN task ELSE [task EXCEPT ![k] = t]
  /\ IF task[k].st = "absent" THEN UNCHANGED disk ELSE Save(UpdateSaveFails)

-----------------------------------------------------------------------------
(* Clients. *)

(* A thread between leaving the lock and the queue, with a job to hand in. *)
Unused == {j \in Job : pc[j] = "none"}

(* Mutant: the task is created and its thread is not. *)
HandInForgotten(j, k, what) ==
  /\ j \in Unused
  /\ UNCHANGED <<pc, key, kind>>
HandIn(j, k, what) ==
  /\ j \in Unused
  /\ pc' = [pc EXCEPT ![j] = "hand"]
  /\ key' = [key EXCEPT ![j] = k]
  /\ kind' = [kind EXCEPT ![j] = what]

jobVars == <<pc, key, kind, state>>

(* The tasks a submission of prompt p would repeat.  Mutant: a task counts  *)
(* only while it is under way.                                             *)
UnderWayOnly(ts, p) == {k \in Key : ts[k].prompt = p /\ ts[k].fresh /\ ts[k].st \in Unfinished}
Duplicates(ts, p) == {k \in Key : ts[k].prompt = p /\ ts[k].fresh}

(* _submit of a key that exists: the task is returned as it is. *)
SubmitAgain(k) ==
  LET ts == Cleaned(task)
  IN /\ ts[k].st # "absent"
     /\ ts # task
     /\ task' = ts
     /\ Save(SubmitSaveFails)
     /\ UNCHANGED <<jobVars, restarts, asked>>

(* _submit of a prompt that another task has: that task is returned. *)
SubmitDuplicate(k, p) ==
  LET ts == Cleaned(task)
  IN /\ ts[k].st = "absent"
     /\ Duplicates(ts, p) # {}
     /\ task' = ts
     /\ Save(SubmitSaveFails)
     /\ UNCHANGED <<jobVars, restarts, asked>>

(* _submit of a new task.  When the save raises, the task stays in _tasks  *)
(* and nothing is started.                                                 *)
SubmitNew(k, p, j) ==
  LET ts == Cleaned(task)
  IN /\ ts[k].st = "absent"
     /\ Duplicates(ts, p) = {}
     /\ task' = [ts EXCEPT ![k] = New(p)]
     /\ \/ disk' = task' /\ HandIn(j, k, "run") /\ UNCHANGED state
        \/ SubmitSaveFails /\ UNCHANGED <<disk, jobVars>>
     /\ asked' = [asked EXCEPT ![k] = p]
     /\ UNCHANGED restarts

(* Mutants: resume_inflight, or the outcome, is not looked at. *)
MayResumeAnything(t) == t.conv /\ ~t.resuming
MayResumeTwice(t) == t.st = "error" /\ t.err = "timeout" /\ t.conv
MayResume(t) == t.st = "error" /\ t.err = "timeout" /\ t.conv /\ ~t.resuming

(* resume_poll.  Its save is that of _update_task. *)
Resume(k, j) ==
  /\ MayResume(task[k])
  /\ Update(k, [task[k] EXCEPT !.st = "running", !.err = "none",
                               !.resuming = TRUE, !.old = FALSE])
  /\ HandIn(j, k, "resume")
  /\ UNCHANGED <<state, restarts, asked>>

(* list_tasks. *)
List ==
  /\ Cleaned(task) # task
  /\ task' = Cleaned(task)
  /\ Save(SubmitSaveFails)
  /\ UNCHANGED <<jobVars, restarts, asked>>

-----------------------------------------------------------------------------
(* The threads of the jobs. *)

Goto(j, from, to) ==
  /\ pc[j] = from
  /\ pc' = [pc EXCEPT ![j] = to]

FirstStep(j) == IF kind[j] = "run" THEN "start" ELSE "work"

(* The job is enqueued, or started at once where no consumer is alive. *)
Enqueue(j) ==
  /\ \/ Goto(j, "hand", "queue") /\ Queue!Submit(j)
     \/ Goto(j, "hand", FirstStep(j)) /\ UNCHANGED state
  /\ UNCHANGED <<task, disk, key, kind, restarts, asked>>

Start(j) ==
  /\ Goto(j, "queue", FirstStep(j))
  /\ Queue!Start(j)
  /\ UNCHANGED <<task, disk, key, kind, restarts, asked>>

(* _run_task begins. *)
Begin(j) ==
  /\ Goto(j, "start", "work")
  /\ Update(key[j], [task[key[j]] EXCEPT !.st = "running", !.err = "none"])
  /\ UNCHANGED <<key, kind, state, restarts, asked>>

(* progress_callback: the task is saved again. *)
Progress(j) ==
  /\ pc[j] = "work" /\ kind[j] = "run"
  /\ disk # task
  /\ Update(key[j], task[key[j]])
  /\ UNCHANGED <<jobVars, restarts, asked>>

(* The work is done or failed.  A timeout may name its conversation.  The  *)
(* event and the log entry that follow change no task.                     *)
Finish(j) ==
  LET t == task[key[j]]
  IN /\ Goto(j, "work", IF kind[j] = "run" THEN "end" ELSE "clear")
     /\ \/ Update(key[j], [t EXCEPT !.st = "success", !.err = "none"])
        \/ \E e \in {"timeout", "other"} :
             Update(key[j], [t EXCEPT !.st = "error", !.err = e])
        \/ /\ kind[j] = "run"
           /\ Update(key[j], [t EXCEPT !.st = "error", !.err = "timeout", !.conv = TRUE])
     /\ UNCHANGED <<key, kind, state, restarts, asked>>

(* The finally block of _run_resume_poll clears resume_inflight. *)
Clear(j) ==
  /\ Goto(j, "clear", "end")
  /\ Update(key[j], [task[key[j]] EXCEPT !.resuming = FALSE])
  /\ UNCHANGED <<key, kind, state, restarts, asked>>

End(j) ==
  /\ Goto(j, "end", "over")
  /\ Queue!End(j) \/ (state[j] = "unknown" /\ UNCHANGED state)
  /\ UNCHANGED <<task, disk, key, kind, restarts, asked>>

-----------------------------------------------------------------------------
(* Time, and the process. *)

Active(k) == {j \in Job : pc[j] \notin {"none", "end", "over", "lost"} /\ key[j] = k}

(* The window of deduplication ends. *)
WindowEnds(k) ==
  /\ task[k].fresh
  /\ task' = [task EXCEPT ![k].fresh = FALSE]
  /\ disk' = [disk EXCEPT ![k].fresh = FALSE]
  /\ UNCHANGED <<jobVars, restarts, asked>>

(* So does the retention of a task that nobody works on, days later. *)
RetentionEnds(k) ==
  /\ task[k].st \in Terminal /\ ~task[k].old /\ ~task[k].fresh
  /\ Active(k) = {}
  /\ task' = [task EXCEPT ![k].old = TRUE]
  /\ disk' = [disk EXCEPT ![k].old = @ \/ disk[k].st # "absent"]
  /\ UNCHANGED <<jobVars, restarts, asked>>

(* _load_locked keeps the fields it lists, of which the prompt is none. *)
(* Mutant: the conversation is not among them either. *)
LoadedWithoutConversation(t) == [t EXCEPT !.resuming = FALSE, !.prompt = "", !.conv = FALSE]
Loaded(t) == [t EXCEPT !.resuming = FALSE, !.prompt = ""]

(* _recover_unfinished_locked *)
(* Mutant: only tasks that ran are taken for interrupted. *)
RecoveredIfRunning(t) ==
  IF t.st = "running" THEN [t EXCEPT !.st = "error", !.err = "restart", !.old = FALSE] ELSE t
Recovered(t) ==
  IF t.st \in Unfinished THEN [t EXCEPT !.st = "error", !.err = "restart", !.old = FALSE] ELSE t

(* The process dies and starts again: jobs are lost, tasks are read back.  *)
(* They are saved if that changed any.                                     *)
Restart ==
  /\ restarts < MaxRestarts
  /\ restarts' = restarts + 1
  /\ LET found == [k \in Key |-> Loaded(disk[k])]
         tasks == Cleaned([k \in Key |-> Recovered(found[k])])
     IN /\ task' = tasks
        /\ disk' = IF tasks = found THEN disk ELSE tasks
  /\ pc' = [j \in Job |-> IF pc[j] = "none" THEN "none" ELSE "lost"]
  /\ state' = [j \in Job |-> IF state[j] = "unknown" THEN "unknown" ELSE "dropped"]
  /\ UNCHANGED <<key, kind, asked>>

-----------------------------------------------------------------------------
Client ==
  \/ \E k \in Key : SubmitAgain(k)
  \/ \E k \in Key, p \in Prompt : SubmitDuplicate(k, p)
  \/ \E k \in Key, p \in Prompt, j \in Job : SubmitNew(k, p, j)
  \/ \E k \in Key, j \in Job : Resume(k, j)
  \/ List

Step(j) ==
  Enqueue(j) \/ Start(j) \/ Begin(j) \/ Progress(j) \/ Finish(j) \/ Clear(j) \/ End(j)

Environment ==
  \/ \E k \in Key : WindowEnds(k) \/ RetentionEnds(k)
  \/ Restart

Next ==
  \/ Client
  \/ \E j \in Job : Step(j)
  \/ Environment

Spec == Init /\ [][Next]_vars

(* Threads run, the queue starts what waits (TaskQueue's EventuallySettled *)
(* shows it does when its consumer keeps on) and upstream calls end.       *)
FairSpec ==
  /\ Spec
  /\ \A j \in Job : WF_vars(Enqueue(j) \/ Start(j) \/ Begin(j) \/ Finish(j) \/ Clear(j) \/ End(j))

-----------------------------------------------------------------------------
Tasks ==
  [st : {"absent"} \cup Unfinished \cup Terminal,
   err : {"none", "timeout", "other", "restart"},
   conv : BOOLEAN, resuming : BOOLEAN, prompt : Prompt \cup {""},
   fresh : BOOLEAN, old : BOOLEAN]

(* The type invariant. *)
TypeOK ==
  /\ task \in [Key -> Tasks] /\ disk \in [Key -> Tasks]
  /\ pc \in [Job -> {"none", "hand", "queue", "start", "work", "clear", "end", "over", "lost"}]
  /\ key \in [Job -> Key]
  /\ kind \in [Job -> {"run", "resume"}]
  /\ state \in [Job -> {"unknown", "waiting", "running", "ended", "cancelled", "dropped"}]
  /\ restarts \in 0..MaxRestarts
  /\ asked \in [Key -> Prompt \cup {""}]

(* At most one thread works on a task, however often it is submitted and   *)
(* resumed; what one thread writes no other overwrites.                    *)
OneWorker == \A k \in Key : Cardinality(Active(k)) <= 1

(* No task is stuck: while a task is queued or running, a thread has it or *)
(* the queue has its job, after restarts and failed saves too.             *)
UnfinishedHasWorker ==
  \A k \in Key : task[k].st \in Unfinished => Active(k) # {}

(* A result that reached the file is never lost: no late thread, resume or *)
(* restart turns such a success into anything else, until retention ends.  *)
SuccessIsFinal ==
  [][\A k \in Key : {task[k].st, disk[k].st} = {"success"} =>
        task'[k].st = "success" \/ (task[k].old /\ task'[k].st # "error")]_vars

(* A restart takes from no saved task the possibility to be resumed: what  *)
(* resume_poll needs is read back from the file, which saves while the     *)
(* task was being resumed before must not have spoilt.                     *)
ResumableSurvivesRestart ==
  [][restarts' # restarts =>
       \A k \in Key : MayResume(task[k]) /\ disk[k] = task[k] /\ ~task[k].old
                        => MayResume(task'[k])]_vars

(* Each prompt is paid for once: within PROMPT_DEDUP_WINDOW_SECS no two    *)
(* tasks are created for the same prompt.                                  *)
OncePerWindow ==
  \A k, l \in Key : k # l /\ task[k].fresh /\ task[l].fresh => asked[k] # asked[l]

(* Every task that is submitted or resumed ends. *)
EventuallyTerminal ==
  \A k \in Key : task[k].st \in Unfinished ~> task[k].st \notin Unfinished
=============================================================================
