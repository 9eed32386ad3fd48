------------------------------ MODULE Backups ------------------------------
(***************************************************************************)
(* Backups to an R2 bucket (services/backup_service.py): a run packs the   *)
(* data, uploads it, reads it back to compare checksums and then deletes   *)
(* all but the newest objects.  Every process has a scheduler thread that  *)
(* starts a run when the last one, by a file that the processes share, is  *)
(* long enough ago; an administrator starts and deletes at any time.       *)
(*                                                                         *)
(* An object is its number in order of upload, which is how the bucket     *)
(* lists them.  What an archive contains and how it is signed, encrypted   *)
(* and shown is left out.                                                  *)
(***************************************************************************)
EXTENDS Integers, FiniteSets

CONSTANTS Runner,    \* the processes
          Uploads,   \* how many uploads are tried
          Keep,      \* rotation_keep; 0 keeps everything
          ReadFails, \* whether an object may be unreadable for a while
          StateSaveFails  \* whether the state file may be unwritable

VARIABLES
    bucket,   \* the objects in it
    damaged,  \* those of them that are not what was sent
    uploads,  \* how many objects were sent
    run,      \* the run of each process, Resting if there is none
    running,  \* _running of each process
    state,    \* the state file
    verified, \* the last object that was read back and found right, 0 if none
    deleted   \* objects that an administrator deleted

backupVars == <<bucket, damaged, uploads, run, running, state, verified, deleted>>

Object == 1 .. Uploads
Resting == [phase |-> "resting", object |-> 0, doomed |-> {}]
RunPhases == {"resting", "packing", "uploaded", "accepted", "rotating"}

BackupTypeOK ==
    /\ bucket \subseteq Object
    /\ damaged \subseteq Object
    /\ uploads \in 0 .. Uploads
    /\ run \in [Runner -> [phase : RunPhases, object : 0 .. Uploads, doomed : SUBSET Object]]
    /\ running \in [Runner -> BOOLEAN]
    /\ state \in [status : {"idle", "success", "error"}, due : BOOLEAN]
    /\ verified \in 0 .. Uploads
    /\ deleted \subseteq Object

BackupInit ==
    /\ bucket = {}
    /\ damaged = {}
    /\ uploads = 0
    /\ run = [p \in Runner |-> Resting]
    /\ running = [p \in Runner |-> FALSE]
    /\ state = [status |-> "idle", due |-> TRUE]
    /\ verified = 0
    /\ deleted = {}

-----------------------------------------------------------------------------
(* A run.  The scheduler waits for the file to say that it is due; an           *)
(* administrator and the task handler do not.                                   *)

\* The flag is set before the state is saved, and a save that fails leaves it set.
BeginRun(p) ==
    /\ ~running[p]
    /\ uploads < Uploads
    /\ running' = [running EXCEPT ![p] = TRUE]
    /\ \/ /\ run' = [run EXCEPT ![p].phase = "packing"]
          /\ state' = [state EXCEPT !.status = "idle"]
       \/ /\ StateSaveFails
          /\ UNCHANGED <<run, state>>
    /\ UNCHANGED <<bucket, damaged, uploads, verified, deleted>>

Scheduled(p) == state.due /\ BeginRun(p)

\* The run ends, with the state saved or, when that fails, an older one left; a
\* success that cannot be saved is taken for a failure.
End(p, status) ==
    /\ run' = [run EXCEPT ![p] = Resting]
    /\ running' = [running EXCEPT ![p] = FALSE]
    /\ \/ state' = [status |-> status, due |-> FALSE]
       \/ StateSaveFails /\ (UNCHANGED state \/ state' = [status |-> "error", due |-> FALSE])

\* Packing, encrypting or uploading fails, the last perhaps after the object arrived.
PackFails(p) ==
    /\ run[p].phase = "packing"
    /\ End(p, "error")
    /\ \/ UNCHANGED <<bucket, uploads>>
       \/ /\ uploads < Uploads
          /\ uploads' = uploads + 1
          /\ bucket' = bucket \cup {uploads'}
    /\ UNCHANGED <<damaged, verified, deleted>>

Upload(p) ==
    /\ run[p].phase = "packing"
    /\ uploads < Uploads
    /\ uploads' = uploads + 1
    /\ bucket' = bucket \cup {uploads'}
    /\ damaged' \in {damaged, damaged \cup {uploads'}}
    /\ run' = [run EXCEPT ![p].phase = "uploaded", ![p].object = uploads']
    /\ UNCHANGED <<running, state, verified, deleted>>

Readable(p) == run[p].object \in bucket
Right(p) == Readable(p) /\ run[p].object \notin damaged

\* _verify_uploaded_object: an object that cannot be read back is accepted.
Verify(p) ==
    /\ run[p].phase = "uploaded"
    /\ \/ Right(p) /\ verified' = run[p].object
       \/ (ReadFails \/ ~Readable(p)) /\ UNCHANGED verified
    /\ run' = [run EXCEPT ![p].phase = "accepted"]
    /\ UNCHANGED <<bucket, damaged, uploads, running, state, deleted>>

\* Mutant: what differs is accepted.
MismatchAccepted(p) ==
    /\ run[p].phase = "uploaded"
    /\ Readable(p) /\ ~Right(p)
    /\ run' = [run EXCEPT ![p].phase = "accepted"]
    /\ UNCHANGED <<bucket, damaged, uploads, running, state, verified, deleted>>

\* An object that differs from what was sent fails the run before the rotation.
Mismatch(p) ==
    /\ run[p].phase = "uploaded"
    /\ Readable(p) /\ ~Right(p)
    /\ End(p, "error")
    /\ UNCHANGED <<bucket, damaged, uploads, verified, deleted>>

Newest(objects) == {o \in objects : Cardinality({q \in objects : q > o}) < Keep}

\* _apply_rotation lists the bucket and then deletes the objects one by one; the
\* listing, or a deletion, may fail, which fails the run.
ListBucket(p) ==
    /\ run[p].phase = "accepted"
    /\ Keep > 0
    /\ run' = [run EXCEPT ![p].phase = "rotating", ![p].doomed = bucket \ Newest(bucket)]
    /\ UNCHANGED <<bucket, damaged, uploads, running, state, verified, deleted>>

Rotate(p) ==
    /\ run[p].phase = "rotating"
    /\ \E o \in run[p].doomed :
        /\ \A q \in run[p].doomed : q <= o
        /\ bucket' = bucket \ {o}
        /\ run' = [run EXCEPT ![p].doomed = @ \ {o}]
    /\ UNCHANGED <<damaged, uploads, running, state, verified, deleted>>

RotateFails(p) ==
    /\ run[p].phase \in {"accepted", "rotating"}
    /\ Keep > 0
    /\ End(p, "error")
    /\ UNCHANGED <<bucket, damaged, uploads, verified, deleted>>

Succeed(p) ==
    /\ \/ run[p].phase = "accepted" /\ Keep = 0
       \/ run[p].phase = "rotating" /\ run[p].doomed = {}
    /\ End(p, "success")
    /\ UNCHANGED <<bucket, damaged, uploads, verified, deleted>>

-----------------------------------------------------------------------------

\* delete_backup
DeleteObject(o) ==
    /\ o \in bucket
    /\ bucket' = bucket \ {o}
    /\ deleted' = deleted \cup {o}
    /\ UNCHANGED <<damaged, uploads, run, running, state, verified>>

IntervalPasses ==
    /\ ~state.due
    /\ state' = [state EXCEPT !.due = TRUE]
    /\ UNCHANGED <<bucket, damaged, uploads, run, running, verified, deleted>>

RestartRunner(p) ==
    /\ run' = [run EXCEPT ![p] = Resting]
    /\ running' = [running EXCEPT ![p] = FALSE]
    /\ UNCHANGED <<bucket, damaged, uploads, state, verified, deleted>>

BackupNext ==
    \/ \E p \in Runner :
        \/ Scheduled(p) \/ BeginRun(p) \/ PackFails(p) \/ Upload(p)
        \/ Verify(p) \/ Mismatch(p)
        \/ ListBucket(p) \/ Rotate(p) \/ RotateFails(p) \/ Succeed(p)
        \/ RestartRunner(p)
    \/ \E o \in Object : DeleteObject(o)
    \/ IntervalPasses

BackupSpec == BackupInit /\ [][BackupNext]_backupVars

-----------------------------------------------------------------------------
(* What the backups promise. *)

\* The last backup that was read back and found right stays, through damaged uploads,
\* uploads that failed halfway, rotations that failed and restarts, until an
\* administrator deletes it or a later one: "保留旧的好备份"
\* (services/backup_service.py:608).
VerifiedStays ==
    \/ verified \in bucket \cup {0}
    \/ \E o \in deleted : o >= verified

\* A process that says a backup is running runs one: otherwise it refuses every later
\* one (services/backup_service.py:504).
RunningIsReal == \A p \in Runner : running[p] => run[p] # Resting

=============================================================================
