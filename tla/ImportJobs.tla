----------------------------- MODULE ImportJobs -----------------------------
(***************************************************************************)
(* Importing accounts from another service: from a CPA pool, file by file  *)
(* (services/cpa_service.py), or from a sub2api server, all at once        *)
(* (services/sub2api_service.py).  A thread imports; it tells how far it   *)
(* is in a record kept with the source's settings, which administrators    *)
(* change meanwhile, and which is read and written back under two separate *)
(* holds of the lock.                                                      *)
(*                                                                         *)
(* One source is modelled.  A name is fetched or not; what is fetched is   *)
(* added or was there before; the several reads of one update are one.     *)
(***************************************************************************)
EXTENDS Integers

CONSTANTS Import,  \* the imports that are started, one after the other
          Names,   \* how many accounts an import may be for
          Overlap, \* whether one may start while another runs
          AddFails \* whether adding or refreshing the accounts may raise

VARIABLES
    kind,    \* what the source is
    source,  \* whether it exists
    job,     \* its import_job; NoJob if there is none
    saved,   \* what of it is in the file, as it is read after a restart
    thread,  \* where the thread of each import is
    held     \* the job as a thread read it, before it writes it back

importVars == <<kind, source, job, saved, thread, held>>

NoJob == [of |-> 0, status |-> "none", total |-> 0, completed |-> 0, errors |-> 0, added |-> 0]
Jobs == [of : Import \cup {0}, status : {"none", "pending", "running", "completed", "failed"},
         total : 0 .. Names, completed : Nat, errors : Nat, added : 0 .. Names]
NoThread == [phase |-> "none", total |-> 0, left |-> 0, tokens |-> 0]
ImportPhases == {"none", "begin", "fetch", "fetched", "add", "added", "over", "dead"}

ImportTypeOK ==
    /\ kind \in {"cpa", "sub2api"}
    /\ source \in BOOLEAN
    /\ job \in Jobs /\ saved \in Jobs
    /\ thread \in [Import -> [phase : ImportPhases, total : 0 .. Names,
                              left : 0 .. Names, tokens : 0 .. Names]]
    /\ held \in [Import -> Jobs]

ImportInit ==
    /\ kind \in {"cpa", "sub2api"}
    /\ source = TRUE
    /\ job = NoJob
    /\ saved = NoJob
    /\ thread = [i \in Import |-> NoThread]
    /\ held = [i \in Import |-> NoJob]

Unfinished == {"pending", "running"}

\* _normalize_import_job with fail_unfinished.
Normalized(j) == IF j.status \in Unfinished THEN [j EXCEPT !.status = "failed"] ELSE j

\* Every change is saved.
Store(j) == job' = j /\ saved' = Normalized(j)

Running(i) == thread[i].phase \notin {"none", "over", "dead"}
Move(i, phase) == thread' = [thread EXCEPT ![i].phase = phase]

-----------------------------------------------------------------------------
(* An import. *)

Start(i, names) ==
    /\ source
    /\ thread[i] = NoThread
    /\ Overlap \/ \A other \in Import : ~Running(other)
    /\ Store([NoJob EXCEPT !.of = i, !.status = "pending", !.total = names])
    /\ thread' = [thread EXCEPT ![i] =
           [phase |-> "begin", total |-> names, left |-> names, tokens |-> 0]]
    /\ UNCHANGED <<kind, source, held>>

\* The first half of _update_job.
Read(i) ==
    /\ thread[i].phase \in {"begin", "fetch", "fetched", "added"}
    /\ held[i] = NoJob
    /\ source
    /\ held' = [held EXCEPT ![i] = job]
    /\ UNCHANGED <<kind, source, job, saved, thread>>

\* The second half: a source that is gone keeps the job from being written, and the
\* import goes on.
Write(i, j) ==
    /\ held[i] # NoJob \/ ~source
    /\ held' = [held EXCEPT ![i] = NoJob]
    /\ IF source THEN Store(j) ELSE UNCHANGED <<job, saved>>
    /\ UNCHANGED <<kind, source>>

BeginImport(i) ==
    /\ thread[i].phase = "begin"
    /\ Write(i, [held[i] EXCEPT !.status = "running"])
    /\ Move(i, "fetch")

\* Mutant: a file that was not fetched is no error.
FetchOneWithoutErrors(i, ok) ==
    /\ kind = "cpa"
    /\ thread[i].phase = "fetch"
    /\ thread' = [thread EXCEPT
           ![i].left = @ - 1,
           ![i].tokens = IF ok THEN @ + 1 ELSE @,
           ![i].phase = IF thread[i].left = 1 THEN "fetched" ELSE "fetch"]
    /\ Write(i, [held[i] EXCEPT !.completed = @ + 1])

\* A file of a CPA pool is fetched or not; either counts as completed.
FetchOne(i, ok) ==
    /\ kind = "cpa"
    /\ thread[i].phase = "fetch"
    /\ thread' = [thread EXCEPT
           ![i].left = @ - 1,
           ![i].tokens = IF ok THEN @ + 1 ELSE @,
           ![i].phase = IF thread[i].left = 1 THEN "fetched" ELSE "fetch"]
    /\ Write(i, [held[i] EXCEPT !.completed = @ + 1,
                                !.errors = IF ok THEN @ ELSE @ + 1])

\* A sub2api server exports all accounts, or some of them and an error for the rest.
FetchAll(i, tokens) ==
    /\ kind = "sub2api"
    /\ thread[i].phase = "fetch"
    /\ thread' = [thread EXCEPT ![i].left = 0, ![i].tokens = tokens, ![i].phase = "fetched"]
    /\ Write(i, [held[i] EXCEPT !.completed = thread[i].total,
                                !.errors = @ + thread[i].total - tokens])

Nothing(i) ==
    /\ thread[i].phase = "fetched"
    /\ thread[i].tokens = 0
    /\ Write(i, [held[i] EXCEPT !.status = "failed", !.completed = held[i].total])
    /\ Move(i, "over")

\* add_accounts and refresh_accounts, of the account pool.
Add(i) ==
    /\ thread[i].phase = "fetched"
    /\ thread[i].tokens > 0
    /\ held[i] = NoJob
    /\ \/ Move(i, "added")
       \/ AddFails /\ Move(i, "dead")
    /\ UNCHANGED <<kind, source, job, saved, held>>

Complete(i) ==
    /\ thread[i].phase = "added"
    /\ \E added \in 0 .. thread[i].tokens :
        Write(i, [held[i] EXCEPT !.status = "completed", !.completed = thread[i].total,
                                 !.added = added])
    /\ Move(i, "over")

-----------------------------------------------------------------------------
(* Administrators, and restarts. *)

\* update_pool, update_server: the whole record is normalized as if it had been loaded.
UpdateSource ==
    /\ source
    /\ job # NoJob
    /\ Store(Normalized(job))
    /\ UNCHANGED <<kind, source, thread, held>>

DeleteSource ==
    /\ source
    /\ source' = FALSE
    /\ Store(NoJob)
    /\ UNCHANGED <<kind, thread, held>>

RestartProgram ==
    /\ job' = saved
    /\ thread' = [i \in Import |-> IF Running(i) THEN [thread[i] EXCEPT !.phase = "dead"]
                                   ELSE thread[i]]
    /\ held' = [i \in Import |-> NoJob]
    /\ UNCHANGED <<kind, source, saved>>

ImportNext ==
    \/ \E i \in Import :
        \/ \E names \in 1 .. Names : Start(i, names)
        \/ Read(i) \/ BeginImport(i)
        \/ \E ok \in BOOLEAN : FetchOne(i, ok)
        \/ \E tokens \in 0 .. thread[i].total : FetchAll(i, tokens)
        \/ Nothing(i) \/ Add(i) \/ Complete(i)
    \/ UpdateSource \/ DeleteSource \/ RestartProgram

ImportSpec == ImportInit /\ [][ImportNext]_importVars

-----------------------------------------------------------------------------
(* What the record says. *)

\* Once an import is over, the source's record says so and adds up: every name counts
\* as completed, those not fetched are its errors, and it failed if none was fetched,
\* whatever administrators stored between the thread's reads and writes
\* (services/cpa_service.py:299-310, services/sub2api_service.py:519-530).
FinishedAddsUp ==
    \A i \in Import :
        source /\ job.of = i /\ thread[i].phase = "over" =>
            /\ job.status = IF thread[i].tokens > 0 THEN "completed" ELSE "failed"
            /\ job.completed = job.total
            /\ job.total = thread[i].total
            /\ job.errors = job.total - thread[i].tokens

\* A record that says an import is over, or that one runs, is right.
StatusIsTrue ==
    source /\ job # NoJob =>
        (job.status \in Unfinished <=> \E i \in Import : Running(i))

=============================================================================
