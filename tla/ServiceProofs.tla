---------------------------- MODULE ServiceProofs ----------------------------
(***************************************************************************)
(* Proofs about the small services, which share no state: API keys,        *)
(* backups, imports of accounts, the store of images, the request log and  *)
(* text requests.  Each is proved for its own specification and any number *)
(* of keys, objects, names, images and entries, and for texts of any       *)
(* length.                                                                 *)
(*                                                                         *)
(* A theorem names, as a hypothesis, the ingredient without which the code *)
(* keeps the promise, and with which it does not: a second process, a      *)
(* read-back that fails, a second import, a slow reader, an upstream that  *)
(* takes back text.                                                        *)
(***************************************************************************)
EXTENDS ApiKeys, Backups, ImageStore, ImportJobs, LogBook, TextRequest,
        FiniteSetTheorems, SequenceTheorems, WellFoundedInduction, TLAPS

-----------------------------------------------------------------------------
(* API keys (services/auth_service.py).                                     *)

(* One process serves the API, and no key is called like the place holder. *)
OneProcess ==
  /\ \A v, w \in Worker : v = w
  /\ "nokey" \notin Key

(* What a call is about to save is in the memory already. *)
CallInMemory ==
  \A w \in Worker : call[w] # Idle => mem[w][call[w].key] = call[w].to

KeyInvariant ==
  /\ KeyTypeOK
  /\ CallInMemory
  /\ KeysAreAsTold

LEMMA KeyStarts ==
  ASSUME KeyInit
  PROVE  KeyInvariant
<1> USE DEF KeyInit
<1>1. KeyTypeOK
  BY DEF KeyTypeOK, Items, Status
<1>2. CallInMemory
  BY DEF CallInMemory
<1>3. KeysAreAsTold
  BY DEF KeysAreAsTold, Believed
<1>4. QED
  BY <1>1, <1>2, <1>3 DEF KeyInvariant

(* What is believed of a key with one process at work. *)
LEMMA BelievedOfOne ==
  ASSUME OneProcess, NEW w \in Worker, NEW k \in Key
  PROVE  /\ Believed(k) = {IF told[k] = "unused" THEN "none" ELSE told[k]} \cup doubt[k]
                                 \cup {x \in {call[w].to} : call[w].key = k}
         /\ Believed(k)' = {IF told'[k] = "unused" THEN "none" ELSE told'[k]} \cup doubt'[k]
                            \cup {x \in {call'[w].to} : call'[w].key = k}
BY DEF OneProcess, Believed

LEMMA KeysChange ==
  ASSUME OneProcess, KeyInvariant, NEW w \in Worker, NEW k \in Key, NEW to \in Status,
         Change(w, k, to), doubt' = doubt,
         \/ told' = told
         \/ told[k] = "unused" /\ told' = [told EXCEPT ![k] = "none"]
  PROVE  KeyInvariant'
<1> USE DEF Change
<1>1. \A v \in Worker : v = w
  BY DEF OneProcess
<1>2. KeyTypeOK
  BY DEF KeyInvariant
<1>3. KeyTypeOK'
  BY <1>2 DEF KeyTypeOK, Items, Status
<1>4. /\ call[w] = Idle /\ call'[w] = [key |-> k, to |-> to]
      /\ mem'[w] = [disk EXCEPT ![k] = to]
      /\ disk' = disk /\ disk \in Items
  BY <1>2 DEF KeyTypeOK
<1>5. mem'[w][k] = to /\ call'[w].key = k /\ call'[w].to = to
  <2>1. [disk EXCEPT ![k] = to][k] = to
    BY <1>4 DEF Items
  <2>2. call'[w].key = k /\ call'[w].to = to
    BY <1>4
  <2>3. QED
    BY <1>4, <2>1, <2>2
<1>6. CallInMemory'
  BY <1>1, <1>5 DEF CallInMemory
<1>7. ASSUME NEW j \in Key
      PROVE  disk'[j] \in Believed(j)' /\ mem'[w][j] \in Believed(j)'
  <2>1. disk[j] \in Believed(j)
    BY DEF KeyInvariant, KeysAreAsTold
  <2>2. call[w].key # j
    BY <1>4 DEF Idle, OneProcess
  <2>3. (IF told[j] = "unused" THEN "none" ELSE told[j])
           = (IF told'[j] = "unused" THEN "none" ELSE told'[j])
    BY <1>2 DEF KeyTypeOK
  <2>4. disk[j] \in Believed(j)'
    BY <2>1, <2>2, <2>3, BelievedOfOne
  <2>5. mem'[w][j] \in Believed(j)'
    <3>1. CASE j = k
      BY <1>5, <3>1, BelievedOfOne
    <3>2. CASE j # k
      BY <1>4, <2>4, <3>2 DEF Items
    <3>3. QED
      BY <3>1, <3>2
  <2>6. QED
    BY <1>4, <2>4, <2>5
<1>8. KeysAreAsTold'
  BY <1>1, <1>7 DEF KeysAreAsTold
<1>9. QED
  BY <1>3, <1>6, <1>8 DEF KeyInvariant

(* The steps that end a call. *)
LEMMA KeysEnd ==
  ASSUME OneProcess, KeyInvariant, NEW w \in Worker,
         Saved(w) \/ SaveRaises(w) \/ RestartWorker(w)
  PROVE  KeyInvariant'
<1>1. \A v \in Worker : v = w
  BY DEF OneProcess
<1>2. KeyTypeOK /\ CallInMemory
  BY DEF KeyInvariant
<1>3. /\ mem[w] \in Items /\ disk \in Items
      /\ call[w] # Idle => call[w].key \in Key /\ call[w].to \in Status
      /\ \A k \in Key : told[k] \in Status \cup {"unused"} /\ doubt[k] \subseteq Status
  BY <1>2 DEF KeyTypeOK
<1>4. call'[w] = Idle /\ call' = [call EXCEPT ![w] = Idle]
  BY <1>2 DEF KeyTypeOK, Saved, SaveRaises, RestartWorker
<1>5. CallInMemory'
  BY <1>1, <1>4 DEF CallInMemory, Idle
<1>6. KeyTypeOK'
  <2>1. CASE Saved(w)
    BY <1>2, <1>3, <2>1 DEF KeyTypeOK, Saved
  <2>2. CASE SaveRaises(w)
    BY <1>2, <1>3, <2>2 DEF KeyTypeOK, SaveRaises
  <2>3. CASE RestartWorker(w)
    BY <1>2, <1>3, <2>3 DEF KeyTypeOK, RestartWorker
  <2>4. QED
    BY <2>1, <2>2, <2>3
<1>7. ASSUME NEW j \in Key
      PROVE  disk'[j] \in Believed(j)' /\ mem'[w][j] \in Believed(j)'
  <2>1. disk[j] \in Believed(j) /\ mem[w][j] \in Believed(j)
    BY DEF KeyInvariant, KeysAreAsTold
  <2>2. call[w].key = j => call[w] # Idle
    BY DEF Idle, OneProcess
  <2>3. CASE Saved(w)
    <3>1. disk' = mem[w] /\ mem' = mem /\ told' = [told EXCEPT ![call[w].key] = call[w].to]
          /\ doubt' = [doubt EXCEPT ![call[w].key] = {}]
      BY <2>3 DEF Saved
    <3>2. CASE call[w].key = j
      <4>1. mem[w][j] = call[w].to /\ call[w].to # "unused"
        BY <1>2, <1>3, <2>2, <3>2 DEF CallInMemory, Status
      <4>2. told'[j] = call[w].to
        BY <1>2, <3>1, <3>2 DEF KeyTypeOK
      <4>3. QED
        BY <3>1, <4>1, <4>2, BelievedOfOne
    <3>3. CASE call[w].key # j
      <4>1. told'[j] = told[j] /\ doubt'[j] = doubt[j]
        BY <1>2, <3>1, <3>3 DEF KeyTypeOK
      <4>2. QED
        BY <2>1, <3>1, <3>3, <4>1, BelievedOfOne
    <3>4. QED
      BY <3>2, <3>3
  <2>4. CASE SaveRaises(w) \/ RestartWorker(w)
    <3>1. told' = told /\ disk' = disk /\ mem'[w] \in {mem[w], disk}
      BY <1>2, <2>4 DEF KeyTypeOK, SaveRaises, RestartWorker
    <3>2. doubt[j] \subseteq doubt'[j] /\ (call[w].key = j => call[w].to \in doubt'[j])
      BY <1>2, <2>2, <2>4 DEF KeyTypeOK, SaveRaises, RestartWorker
    <3>3. Believed(j) \subseteq Believed(j)'
      BY <3>1, <3>2, BelievedOfOne
    <3>4. QED
      BY <2>1, <3>1, <3>3
  <2>5. QED
    BY <2>3, <2>4
<1>8. KeysAreAsTold'
  BY <1>1, <1>7 DEF KeysAreAsTold
<1>9. QED
  BY <1>5, <1>6, <1>8 DEF KeyInvariant

(* The steps that only copy the memory to the disk or back. *)
LEMMA KeysCopy ==
  ASSUME OneProcess, KeyInvariant, NEW w \in Worker, call[w] = Idle,
         disk' \in {disk, mem[w]}, mem' = mem \/ mem' = [mem EXCEPT ![w] = disk],
         flushed' \in [Worker -> SUBSET Key], UNCHANGED <<call, told, doubt>>
  PROVE  KeyInvariant'
<1>1. \A v \in Worker : v = w
  BY DEF OneProcess
<1>2. KeyTypeOK'
  BY DEF KeyInvariant, KeyTypeOK
<1>3. CallInMemory'
  BY <1>1 DEF CallInMemory
<1>4. mem'[w] \in {mem[w], disk}
  BY DEF KeyInvariant, KeyTypeOK
<1>5. \A k \in Key : Believed(k)' = Believed(k)
  BY DEF Believed
<1>6. \A k \in Key : disk[k] \in Believed(k) /\ mem[w][k] \in Believed(k)
  BY DEF KeyInvariant, KeysAreAsTold
<1>7. KeysAreAsTold'
  BY <1>1, <1>4, <1>5, <1>6 DEF KeysAreAsTold
<1>8. QED
  BY <1>2, <1>3, <1>7 DEF KeyInvariant

LEMMA KeySteps ==
  ASSUME OneProcess, KeyInvariant, [KeyNext]_(keyVars)
  PROVE  KeyInvariant'
<1>1. flushed \in [Worker -> SUBSET Key]
  BY DEF KeyInvariant, KeyTypeOK
<1>2. ASSUME NEW w \in Worker, NEW k \in Key, Create(w, k)
      PROVE  KeyInvariant'
  BY <1>2, KeysChange DEF Create, Status
<1>3. ASSUME NEW w \in Worker, NEW k \in Key, NEW to \in {"on", "off"}, UpdateKey(w, k, to)
      PROVE  KeyInvariant'
  BY <1>3, KeysChange DEF UpdateKey, Status
<1>4. ASSUME NEW w \in Worker, NEW k \in Key, DeleteKey(w, k)
      PROVE  KeyInvariant'
  BY <1>4, KeysChange DEF DeleteKey, Status
<1>5. ASSUME NEW w \in Worker, NEW k \in Key, Authenticate(w, k)
      PROVE  KeyInvariant'
  BY <1>1, <1>5, KeysCopy DEF Authenticate
<1>6. ASSUME NEW w \in Worker, NEW k \in Key, MinutePasses(w, k)
      PROVE  KeyInvariant'
  <2>1. flushed' \in [Worker -> SUBSET Key]
    BY <1>1, <1>6 DEF MinutePasses
  <2>2. QED
    BY <1>6, <2>1 DEF MinutePasses, KeyInvariant, KeyTypeOK, CallInMemory,
                      KeysAreAsTold, Believed
<1>7. ASSUME NEW w \in Worker, ListKeys(w)
      PROVE  KeyInvariant'
  BY <1>1, <1>7, KeysCopy DEF ListKeys
<1>8. CASE UNCHANGED keyVars
  BY <1>8 DEF keyVars, KeyInvariant, KeyTypeOK, CallInMemory, KeysAreAsTold,
              Believed
<1>9. QED
  BY <1>2, <1>3, <1>4, <1>5, <1>6, <1>7, <1>8, KeysEnd DEF KeyNext

(* As long as one process serves the API, a key is what the administrator  *)
(* was last told, or what a call that got no answer asked for: a revoked   *)
(* key stays revoked through the saves that record the use of others       *)
(* (AuthService.authenticate).                                             *)
THEOREM RevokedStaysRevoked ==
  ASSUME OneProcess
  PROVE  KeySpec => []KeysAreAsTold
<1>1. KeyInvariant => KeysAreAsTold
  BY DEF KeyInvariant
<1>2. QED
  BY <1>1, KeyStarts, KeySteps, PTL DEF KeySpec

-----------------------------------------------------------------------------
(* Backups (services/backup_service.py).                                    *)

(* One process makes backups, and what is in the bucket can be read. *)
OneRunner ==
  /\ \A p, q \in Runner : p = q
  /\ ~ReadFails
  /\ Uploads \in Nat /\ Keep \in Nat

(* An administrator deleted the object or a later one. *)
Excused(o) == \E q \in deleted : q >= o

(* What is there was sent, and what a run sent is the last of it. *)
ObjectsSent ==
  /\ \A o \in bucket \cup deleted : o <= uploads
  /\ verified <= uploads
  /\ \A p \in Runner :
       run[p].phase \in {"uploaded", "accepted", "rotating"} => run[p].object = uploads

(* The object of a run is in the bucket until it is accepted, and it is    *)
(* accepted because it was found right or because it is gone.              *)
ObjectsChecked ==
  \A p \in Runner :
    /\ run[p].phase = "uploaded" => run[p].object \in bucket \cup deleted
    /\ run[p].phase \in {"accepted", "rotating"} => verified = uploads \/ Excused(verified)

(* The rotation spares the verified object. *)
VerifiedSpared ==
  \A p \in Runner :
    run[p].phase = "rotating" => verified \notin run[p].doomed \/ Excused(verified)

BackupInvariant ==
  /\ BackupTypeOK
  /\ ObjectsSent
  /\ ObjectsChecked
  /\ VerifiedSpared
  /\ VerifiedStays

LEMMA BackupStarts ==
  ASSUME OneRunner, BackupInit
  PROVE  BackupInvariant
<1> USE DEF BackupInit
<1>1. BackupTypeOK
  <2>1. Resting \in [phase : RunPhases, object : 0 .. Uploads, doomed : SUBSET Object]
    BY DEF OneRunner, Resting, RunPhases
  <2>2. QED
    BY <2>1 DEF OneRunner, BackupTypeOK
<1>2. ObjectsSent /\ ObjectsChecked /\ VerifiedSpared /\ VerifiedStays
  BY DEF ObjectsSent, ObjectsChecked, VerifiedSpared, VerifiedStays, Resting
<1>3. QED
  BY <1>1, <1>2 DEF BackupInvariant

(* What TypeOK says of one run. *)
LEMMA RunTyped ==
  ASSUME BackupTypeOK, NEW p \in Runner
  PROVE  run[p].phase \in RunPhases /\ run[p].object \in 0 .. Uploads
         /\ run[p].doomed \subseteq Object
BY DEF BackupTypeOK

(* The invariant, said of the only runner there is. *)
LEMMA OfOneRunner ==
  ASSUME OneRunner, NEW p \in Runner, BackupTypeOK'
  PROVE  (/\ \A o \in bucket' \cup deleted' : o <= uploads'
          /\ verified' <= uploads'
          /\ run'[p].phase \in {"uploaded", "accepted", "rotating"} => run'[p].object = uploads'
          /\ run'[p].phase = "uploaded" => run'[p].object \in bucket' \cup deleted'
          /\ run'[p].phase \in {"accepted", "rotating"} => verified' = uploads' \/ Excused(verified)'
          /\ run'[p].phase = "rotating" => verified' \notin run'[p].doomed \/ Excused(verified)'
          /\ verified' \in bucket' \cup {0} \/ Excused(verified)')
         => BackupInvariant'
<1>1. \A q \in Runner : q = p
  BY DEF OneRunner
<1>2. QED
  BY <1>1 DEF BackupInvariant, ObjectsSent, ObjectsChecked, VerifiedSpared,
              VerifiedStays, Excused

(* A run that ends, or is no more, with what it uploaded. *)
LEMMA BackupEnds ==
  ASSUME OneRunner, BackupInvariant, BackupTypeOK', NEW p \in Runner,
         run'[p] = Resting, uploads <= uploads', UNCHANGED <<verified, deleted>>,
         bucket \subseteq bucket', \A o \in bucket' : o \in bucket \/ o <= uploads'
  PROVE  BackupInvariant'
<1>1. /\ \A o \in bucket \cup deleted : o <= uploads
      /\ verified <= uploads
      /\ verified \in bucket \cup {0} \/ Excused(verified)
  BY DEF BackupInvariant, ObjectsSent, VerifiedStays, Excused
<1>2. uploads \in Int /\ uploads' \in Int /\ verified \in Int /\ bucket \subseteq Int /\ deleted \subseteq Int
  BY DEF BackupInvariant, BackupTypeOK, Object, OneRunner
<1>3. /\ \A o \in bucket' \cup deleted' : o <= uploads'
      /\ verified' <= uploads'
  BY <1>1, <1>2
<1>4. Excused(verified)' <=> Excused(verified)
  BY DEF Excused
<1>5. QED
  BY <1>1, <1>3, <1>4, OfOneRunner DEF Resting

(* A step that changes neither runs nor objects. *)
LEMMA BackupRests ==
  ASSUME BackupInvariant, BackupTypeOK',
         UNCHANGED <<bucket, uploads, run, verified, deleted>>
  PROVE  BackupInvariant'
BY DEF BackupInvariant, ObjectsSent, ObjectsChecked, VerifiedSpared, VerifiedStays,
       Excused

LEMMA EndTyped ==
  ASSUME OneRunner, BackupTypeOK, NEW p \in Runner, NEW s \in {"success", "error"},
         End(p, s)
  PROVE  /\ run' \in [Runner -> [phase : RunPhases, object : 0 .. Uploads,
                                 doomed : SUBSET Object]]
         /\ run'[p] = Resting
         /\ running' \in [Runner -> BOOLEAN]
         /\ state' \in [status : {"idle", "success", "error"}, due : BOOLEAN]
<1>1. Resting \in [phase : RunPhases, object : 0 .. Uploads, doomed : SUBSET Object]
  BY DEF OneRunner, Resting, RunPhases
<1>2. run' = [run EXCEPT ![p] = Resting] /\ running' = [running EXCEPT ![p] = FALSE]
  BY DEF End
<1>3. state' = state \/ (\E x \in {"success", "error"} : state' = [status |-> x, due |-> FALSE])
  BY DEF End
<1>4. state' \in [status : {"idle", "success", "error"}, due : BOOLEAN]
  <2>1. state \in [status : {"idle", "success", "error"}, due : BOOLEAN]
    BY DEF BackupTypeOK
  <2>2. \A x \in {"success", "error"} :
          [status |-> x, due |-> FALSE] \in [status : {"idle", "success", "error"}, due : BOOLEAN]
    OBVIOUS
  <2>3. QED
    BY <1>3, <2>1, <2>2
<1>5. QED
  BY <1>1, <1>2, <1>4 DEF BackupTypeOK

(* The newest object of a set is among the Keep newest. *)
LEMMA LastIsNewest ==
  ASSUME Keep \in Nat, Keep > 0, NEW S \in SUBSET Int, NEW o \in S, \A q \in S : q <= o
  PROVE  o \in Newest(S)
<1> DEFINE later == {q \in S : q > o}
<1>1. \A q \in S : ~(q > o)
  OBVIOUS
<1>2. later = {}
  BY <1>1
<1>3. Cardinality(later) < Keep
  BY <1>2, FS_EmptySet
<1>4. QED
  BY <1>3 DEF Newest

LEMMA BackupSteps ==
  ASSUME OneRunner, BackupInvariant, [BackupNext]_(backupVars)
  PROVE  BackupInvariant'
<1> DEFINE Run == [phase : RunPhases, object : 0 .. Uploads, doomed : SUBSET Object]
<1>1. BackupTypeOK
  BY DEF BackupInvariant
<1>2. /\ uploads \in 0 .. Uploads /\ verified \in 0 .. Uploads /\ Uploads \in Nat
      /\ bucket \subseteq 1 .. Uploads /\ deleted \subseteq 1 .. Uploads
  BY <1>1 DEF BackupTypeOK, Object, OneRunner
<1>3. /\ \A o \in bucket \cup deleted : o <= uploads
      /\ verified <= uploads
      /\ verified \in bucket \cup {0} \/ Excused(verified)
  BY DEF BackupInvariant, ObjectsSent, VerifiedStays, Excused
<1>4. ASSUME NEW p \in Runner, BeginRun(p)
      PROVE  BackupInvariant'
  <2>1. CASE run' = run
    <3>1. BackupTypeOK'
      BY <1>1, <1>4, <2>1 DEF BackupTypeOK, BeginRun
    <3>2. QED
      BY <1>4, <2>1, <3>1, BackupRests DEF BeginRun
  <2>2. CASE run' = [run EXCEPT ![p].phase = "packing"]
    <3>1. run[p] \in Run
      BY <1>1 DEF BackupTypeOK
    <3>2. [run[p] EXCEPT !.phase = "packing"] \in Run
      BY <3>1 DEF RunPhases
    <3>3. run' = [run EXCEPT ![p] = [run[p] EXCEPT !.phase = "packing"]]
      BY <2>2
    <3>4. run' \in [Runner -> Run] /\ run'[p].phase = "packing"
      BY <1>1, <3>1, <3>2, <3>3 DEF BackupTypeOK
    <3>5. BackupTypeOK'
      BY <1>1, <1>4, <3>4 DEF BackupTypeOK, BeginRun
    <3>6. UNCHANGED <<bucket, uploads, verified, deleted>>
      BY <1>4 DEF BeginRun
    <3>7. QED
      BY <1>3, <3>4, <3>5, <3>6, OfOneRunner DEF Excused
  <2>3. QED
    BY <1>4, <2>1, <2>2 DEF BeginRun
<1>5. ASSUME NEW p \in Runner, PackFails(p)
      PROVE  BackupInvariant'
  <2>1. End(p, "error") /\ UNCHANGED <<damaged, verified, deleted>>
    BY <1>5 DEF PackFails
  <2>2. \/ UNCHANGED <<bucket, uploads>>
        \/ uploads < Uploads /\ uploads' = uploads + 1 /\ bucket' = bucket \cup {uploads'}
    BY <1>5 DEF PackFails
  <2>3. /\ uploads' \in 0 .. Uploads /\ bucket' \subseteq 1 .. Uploads
        /\ uploads <= uploads' /\ \A o \in bucket' : o \in bucket \/ o <= uploads'
        /\ bucket \subseteq bucket'
    <3>1. CASE UNCHANGED <<bucket, uploads>>
      BY <1>2, <3>1
    <3>2. CASE uploads < Uploads /\ uploads' = uploads + 1 /\ bucket' = bucket \cup {uploads'}
      <4>1. uploads' \in 0 .. Uploads /\ uploads' \in 1 .. Uploads /\ uploads <= uploads'
        BY <1>2, <3>2
      <4>2. QED
        BY <1>2, <3>2, <4>1
    <3>3. QED
      BY <2>2, <3>1, <3>2
  <2>4. BackupTypeOK'
    BY <1>1, <2>1, <2>3, EndTyped DEF BackupTypeOK, Object
  <2>5. QED
    BY <1>1, <2>1, <2>3, <2>4, EndTyped, BackupEnds
<1>6. ASSUME NEW p \in Runner, Upload(p)
      PROVE  BackupInvariant'
  <2>1. /\ uploads < Uploads /\ uploads' = uploads + 1 /\ bucket' = bucket \cup {uploads'}
        /\ damaged' \subseteq damaged \cup {uploads'}
        /\ run' = [run EXCEPT ![p] = [@ EXCEPT !.phase = "uploaded", !.object = uploads']]
        /\ UNCHANGED <<running, state, verified, deleted>>
    BY <1>6 DEF Upload
  <2>2. uploads' \in 0 .. Uploads /\ uploads' \in 1 .. Uploads /\ uploads <= uploads'
    BY <1>2, <2>1
  <2>3. run[p] \in Run
    BY <1>1 DEF BackupTypeOK
  <2>4. [run[p] EXCEPT !.phase = "uploaded", !.object = uploads'] \in Run
    BY <2>2, <2>3 DEF RunPhases
  <2>5. run' \in [Runner -> Run] /\ run'[p].phase = "uploaded" /\ run'[p].object = uploads'
    BY <1>1, <2>1, <2>3, <2>4 DEF BackupTypeOK
  <2>6. BackupTypeOK'
    BY <1>1, <2>1, <2>2, <2>5 DEF BackupTypeOK, Object
  <2>7. \A o \in bucket' \cup deleted' : o <= uploads'
    BY <1>2, <1>3, <2>1, <2>2
  <2>8. verified' <= uploads'
    BY <1>2, <1>3, <2>1, <2>2
  <2>9. QED
    BY <1>3, <2>1, <2>5, <2>6, <2>7, <2>8, OfOneRunner DEF Excused
<1>7. ASSUME NEW p \in Runner, Verify(p)
      PROVE  BackupInvariant'
  <2>1. /\ run[p].phase = "uploaded"
        /\ run' = [run EXCEPT ![p] = [@ EXCEPT !.phase = "accepted"]]
        /\ \/ run[p].object \in bucket /\ verified' = run[p].object
           \/ run[p].object \notin bucket /\ verified' = verified
        /\ UNCHANGED <<bucket, damaged, uploads, running, state, deleted>>
    BY <1>7 DEF Verify, Right, Readable, OneRunner
  <2>2. run[p].object = uploads /\ (run[p].object \in bucket \/ run[p].object \in deleted)
    BY <2>1 DEF BackupInvariant, ObjectsSent, ObjectsChecked
  <2>3. run[p] \in Run
    BY <1>1 DEF BackupTypeOK
  <2>4. [run[p] EXCEPT !.phase = "accepted"] \in Run
    BY <2>3 DEF RunPhases
  <2>5. /\ run' \in [Runner -> Run]
        /\ run'[p].phase = "accepted" /\ run'[p].object = run[p].object
    BY <1>1, <2>1, <2>3, <2>4 DEF BackupTypeOK
  <2>6. BackupTypeOK'
    BY <1>1, <1>2, <2>1, <2>2, <2>5 DEF BackupTypeOK
  <2>7. verified' <= uploads'
    BY <1>2, <1>3, <2>1, <2>2
  <2>8. (verified' = uploads' /\ verified' \in bucket') \/ Excused(verified)'
    BY <1>3, <2>1, <2>2 DEF Excused
  <2>9. QED
    BY <1>3, <2>1, <2>2, <2>5, <2>6, <2>7, <2>8, OfOneRunner
<1>8. ASSUME NEW p \in Runner, Mismatch(p) \/ RotateFails(p) \/ Succeed(p)
      PROVE  BackupInvariant'
  <2>1. PICK s \in {"success", "error"} : End(p, s)
    BY <1>8 DEF Mismatch, RotateFails, Succeed
  <2>2. UNCHANGED <<bucket, damaged, uploads, verified, deleted>>
    BY <1>8 DEF Mismatch, RotateFails, Succeed
  <2>3. BackupTypeOK'
    BY <1>1, <2>1, <2>2, EndTyped DEF BackupTypeOK
  <2>4. uploads <= uploads'
    BY <1>2, <2>2
  <2>5. QED
    BY <1>1, <2>1, <2>2, <2>3, <2>4, EndTyped, BackupEnds
<1>9. ASSUME NEW p \in Runner, ListBucket(p)
      PROVE  BackupInvariant'
  <2>1. /\ run[p].phase = "accepted" /\ Keep > 0
        /\ run' = [run EXCEPT ![p] = [@ EXCEPT !.phase = "rotating",
                                               !.doomed = bucket \ Newest(bucket)]]
        /\ UNCHANGED <<bucket, damaged, uploads, running, state, verified, deleted>>
    BY <1>9 DEF ListBucket
  <2>2. run[p].object = uploads /\ (verified = uploads \/ Excused(verified))
    BY <2>1 DEF BackupInvariant, ObjectsSent, ObjectsChecked
  <2>3. verified \notin bucket \ Newest(bucket) \/ Excused(verified)
    <3>1. SUFFICES ASSUME verified = uploads, verified \in bucket
                   PROVE  verified \in Newest(bucket)
      BY <2>2
    <3>2. bucket \in SUBSET Int /\ \A q \in bucket : q <= verified
      BY <1>2, <1>3, <3>1
    <3>3. QED
      BY <2>1, <3>1, <3>2, LastIsNewest DEF OneRunner
  <2>4. run[p] \in Run
    BY <1>1 DEF BackupTypeOK
  <2>5. bucket \ Newest(bucket) \subseteq Object
    BY <1>1 DEF BackupTypeOK
  <2>6. [run[p] EXCEPT !.phase = "rotating", !.doomed = bucket \ Newest(bucket)] \in Run
    BY <2>4, <2>5 DEF RunPhases
  <2>7. /\ run' \in [Runner -> Run] /\ run'[p].phase = "rotating"
        /\ run'[p].object = run[p].object
        /\ run'[p].doomed = bucket \ Newest(bucket)
    BY <1>1, <2>1, <2>4, <2>6 DEF BackupTypeOK
  <2>8. BackupTypeOK'
    BY <1>1, <2>1, <2>7 DEF BackupTypeOK
  <2>9. QED
    BY <1>3, <2>1, <2>2, <2>3, <2>7, <2>8, OfOneRunner DEF Excused
<1>10. ASSUME NEW p \in Runner, Rotate(p)
       PROVE  BackupInvariant'
  <2>1. PICK o \in run[p].doomed :
          /\ bucket' = bucket \ {o}
          /\ run' = [run EXCEPT ![p].doomed = @ \ {o}]
    BY <1>10 DEF Rotate
  <2>2. /\ run[p].phase = "rotating"
        /\ UNCHANGED <<damaged, uploads, running, state, verified, deleted>>
    BY <1>10 DEF Rotate
  <2>3. /\ run[p].object = uploads
        /\ verified = uploads \/ Excused(verified)
        /\ verified \notin run[p].doomed \/ Excused(verified)
    BY <2>2 DEF BackupInvariant, ObjectsSent, ObjectsChecked, VerifiedSpared
  <2>4. run[p] \in Run
    BY <1>1 DEF BackupTypeOK
  <2>5. [run[p] EXCEPT !.doomed = @ \ {o}] \in Run
    BY <2>4
  <2>6. /\ run' \in [Runner -> Run] /\ run'[p].phase = run[p].phase
        /\ run'[p].object = run[p].object /\ run'[p].doomed = run[p].doomed \ {o}
    <3>1. run' = [run EXCEPT ![p] = [run[p] EXCEPT !.doomed = @ \ {o}]]
      BY <2>1
    <3>2. run'[p] = [run[p] EXCEPT !.doomed = @ \ {o}]
      BY <1>1, <3>1 DEF BackupTypeOK
    <3>3. run' \in [Runner -> Run]
      BY <1>1, <2>5, <3>1 DEF BackupTypeOK
    <3>4. QED
      BY <2>4, <3>2, <3>3
  <2>7. BackupTypeOK'
    BY <1>1, <2>1, <2>2, <2>6 DEF BackupTypeOK
  <2>8. Excused(verified)' <=> Excused(verified)
    BY <2>2 DEF Excused
  <2>9. QED
    BY <1>3, <2>1, <2>2, <2>3, <2>6, <2>7, <2>8, OfOneRunner
<1>11. ASSUME NEW p \in Runner, RestartRunner(p)
       PROVE  BackupInvariant'
  <2>1. Resting \in Run
    BY DEF OneRunner, Resting, RunPhases
  <2>2. run' \in [Runner -> Run] /\ run'[p] = Resting
    BY <1>1, <1>11, <2>1 DEF RestartRunner, BackupTypeOK
  <2>3. BackupTypeOK'
    BY <1>1, <1>11, <2>2 DEF RestartRunner, BackupTypeOK
  <2>4. uploads <= uploads' /\ UNCHANGED <<bucket, verified, deleted>>
    BY <1>2, <1>11 DEF RestartRunner
  <2>5. QED
    BY <2>2, <2>3, <2>4, BackupEnds
<1>12. ASSUME NEW o \in Object, DeleteObject(o)
       PROVE  BackupInvariant'
  <2>1. /\ o \in bucket /\ bucket' = bucket \ {o} /\ deleted' = deleted \cup {o}
        /\ UNCHANGED <<damaged, uploads, run, running, state, verified>>
    BY <1>12 DEF DeleteObject
  <2>2. BackupTypeOK'
    BY <1>1, <2>1 DEF BackupTypeOK
  <2>3. \A v : Excused(v) => Excused(v)'
    BY <2>1 DEF Excused
  <2>4. verified' \in bucket' \cup {0} \/ Excused(verified)'
    BY <1>2, <1>3, <2>1, <2>3 DEF Excused
  <2>5. ObjectsSent'
    BY <1>3, <2>1 DEF BackupInvariant, ObjectsSent
  <2>6. ObjectsChecked' /\ VerifiedSpared'
    BY <2>1, <2>3 DEF BackupInvariant, ObjectsChecked, VerifiedSpared, Excused
  <2>7. QED
    BY <2>2, <2>4, <2>5, <2>6 DEF BackupInvariant, VerifiedStays, Excused
<1>13. CASE IntervalPasses
  <2>1. BackupTypeOK'
    BY <1>1, <1>13 DEF BackupTypeOK, IntervalPasses
  <2>2. QED
    BY <1>13, <2>1, BackupRests DEF IntervalPasses
<1>14. CASE UNCHANGED backupVars
  <2>1. BackupTypeOK'
    BY <1>1, <1>14 DEF BackupTypeOK, backupVars
  <2>2. QED
    BY <1>14, <2>1, BackupRests DEF backupVars
<1>15. QED
  BY <1>4, <1>5, <1>6, <1>7, <1>8, <1>9, <1>10, <1>11, <1>12, <1>13, <1>14
     DEF BackupNext, Scheduled

(* With one process that makes backups, and a bucket that can be read, the *)
(* last backup found right stays until an administrator deletes it or a    *)
(* later one: rotation, damage and failure do not take it                  *)
(* (BackupService._apply_rotation after _verify_uploaded_object).          *)
THEOREM VerifiedIsKept ==
  ASSUME OneRunner
  PROVE  BackupSpec => []VerifiedStays
<1>1. BackupInvariant => VerifiedStays
  BY DEF BackupInvariant
<1>2. QED
  BY <1>1, BackupStarts, BackupSteps, PTL DEF BackupSpec

-----------------------------------------------------------------------------
(* Imports (services/cpa_service.py, services/sub2api_service.py).          *)

(* Imports do not overlap. *)
OneImport == ~Overlap /\ 0 \notin Import /\ Names \in Nat

Threads == [phase : ImportPhases, total : 0 .. Names, left : 0 .. Names, tokens : 0 .. Names]

(* A record j of import i that is as far as its thread, which is at t. *)
Fits(i, j, t) ==
  /\ j.of = i
  /\ j.total = t.total
  /\ j.completed = t.total - t.left
  /\ j.errors = t.total - t.left - t.tokens

(* A record that tells how an import went. *)
Tells(j, t) ==
  /\ j.status = IF t.tokens > 0 THEN "completed" ELSE "failed"
  /\ j.completed = j.total
  /\ j.total = t.total
  /\ j.errors = j.total - t.tokens

(* How many names of a source of kind s a thread has got, and has left. *)
Counts(s, t) ==
  /\ t.tokens + t.left <= t.total
  /\ t.phase \in {"begin", "fetch"} =>
       t.left > 0 /\ (s = "sub2api" => t.left = t.total /\ t.tokens = 0)
  /\ t.phase \in {"fetched", "added"} => t.left = 0
  /\ t.phase = "added" => t.tokens > 0

OnlyOneRuns == \A i, j \in Import : Running(i) /\ Running(j) => i = j

ThreadsCount == \A i \in Import : Counts(kind, thread[i])

HeldByRunning == \A i \in Import : held[i] # NoJob => Running(i)

(* The record, and the copy that a thread holds of it, follow the thread.  *)
RecordsFollow ==
  source => \A i \in Import : Running(i) =>
    /\ Fits(i, job, thread[i])
    /\ held[i] # NoJob => Fits(i, held[i], thread[i])

ImportInvariant ==
  /\ ImportTypeOK
  /\ saved = Normalized(job)
  /\ OnlyOneRuns
  /\ ThreadsCount
  /\ HeldByRunning
  /\ RecordsFollow
  /\ FinishedAddsUp

LEMMA JobNormalized ==
  ASSUME NEW j \in Jobs
  PROVE  LET n == Normalized(j)
         IN /\ n \in Jobs
            /\ n.of = j.of /\ n.total = j.total /\ n.completed = j.completed
            /\ n.errors = j.errors
            /\ j.status \in {"completed", "failed"} => n = j
            /\ Normalized(n) = n
BY DEF Normalized, Unfinished, Jobs

LEMMA NoJobTyped ==
  ASSUME OneImport
  PROVE  /\ NoJob \in Jobs /\ NoJob.of = 0
         /\ Normalized(NoJob) = NoJob
BY DEF OneImport, NoJob, Jobs, Normalized, Unfinished

LEMMA NoThreadTyped ==
  ASSUME OneImport
  PROVE  NoThread \in Threads /\ NoThread.phase = "none"
         /\ \A s : Counts(s, NoThread)
BY DEF OneImport, NoThread, Threads, ImportPhases, Counts

LEMMA ImportStarts ==
  ASSUME OneImport, ImportInit
  PROVE  ImportInvariant
<1> USE DEF ImportInit
<1>1. \A i \in Import : thread[i] = NoThread /\ ~Running(i)
  BY NoThreadTyped DEF Running
<1>2. ImportTypeOK
  BY NoJobTyped, NoThreadTyped DEF ImportTypeOK, Threads
<1>3. saved = Normalized(job)
  BY NoJobTyped
<1>4. OnlyOneRuns /\ HeldByRunning /\ RecordsFollow
  BY <1>1 DEF OnlyOneRuns, HeldByRunning, RecordsFollow
<1>5. ThreadsCount
  BY <1>1, NoThreadTyped DEF ThreadsCount
<1>6. FinishedAddsUp
  BY <1>1, NoThreadTyped DEF FinishedAddsUp
<1>7. QED
  BY <1>2, <1>3, <1>4, <1>5, <1>6 DEF ImportInvariant

(* The second half of an update: the thread goes on to t and writes j.     *)
LEMMA ImportWrites ==
  ASSUME OneImport, ImportInvariant, NEW i \in Import, Running(i),
         NEW j, NEW t \in Threads, thread' = [thread EXCEPT ![i] = t],
         Write(i, j), Counts(kind, t), t.phase \notin {"none", "dead"},
         source => j \in Jobs /\ j.of = i,
         source /\ t.phase # "over" => Fits(i, j, t),
         source /\ t.phase = "over" => Tells(j, t)
  PROVE  ImportInvariant'
<1>1. /\ ImportTypeOK /\ OnlyOneRuns /\ ThreadsCount /\ HeldByRunning
      /\ saved = Normalized(job) /\ FinishedAddsUp
  BY DEF ImportInvariant
<1>2. /\ kind' = kind /\ source' = source
      /\ held' = [held EXCEPT ![i] = NoJob]
      /\ source => job' = j /\ saved' = Normalized(j)
      /\ ~source => job' = job /\ saved' = saved
  BY DEF Write, Store
<1>3. ImportTypeOK'
  <2>1. job' \in Jobs /\ saved' \in Jobs
    BY <1>1, <1>2, JobNormalized DEF ImportTypeOK
  <2>2. held' \in [Import -> Jobs]
    BY <1>1, <1>2, NoJobTyped DEF ImportTypeOK
  <2>3. thread' \in [Import -> Threads]
    BY <1>1 DEF ImportTypeOK, Threads
  <2>4. QED
    BY <1>1, <1>2, <2>1, <2>2, <2>3 DEF ImportTypeOK, Threads
<1>4. saved' = Normalized(job)'
  BY <1>1, <1>2 DEF Normalized, Unfinished
<1>5. thread'[i] = t /\ \A k \in Import : k # i => thread'[k] = thread[k] /\ ~Running(k)
  BY <1>1 DEF ImportTypeOK, OnlyOneRuns
<1>6. \A k \in Import : Running(k)' => k = i
  BY <1>5 DEF Running
<1>7. \A k \in Import : held'[k] = NoJob
  BY <1>1, <1>2, <1>5 DEF ImportTypeOK, HeldByRunning
<1>8. OnlyOneRuns' /\ HeldByRunning'
  BY <1>6, <1>7 DEF OnlyOneRuns, HeldByRunning, NoJob
<1>9. ThreadsCount'
  BY <1>1, <1>2, <1>5 DEF ThreadsCount
<1>10. RecordsFollow'
  <2>1. SUFFICES ASSUME source, Running(i)'
                 PROVE  Fits(i, job', thread'[i])
    BY <1>2, <1>6, <1>7 DEF RecordsFollow, Fits, NoJob
  <2>2. t.phase # "over"
    BY <1>5, <2>1 DEF Running
  <2>3. QED
    BY <1>2, <1>5, <2>1, <2>2
<1>11. FinishedAddsUp'
  <2>1. SUFFICES ASSUME source, NEW k \in Import, job'.of = k, thread'[k].phase = "over"
                 PROVE  Tells(job', thread'[k])
    BY <1>2 DEF FinishedAddsUp, Tells
  <2>2. k = i
    BY <1>2, <2>1
  <2>3. QED
    BY <1>2, <1>5, <2>1, <2>2
<1>12. QED
  BY <1>3, <1>4, <1>8, <1>9, <1>10, <1>11 DEF ImportInvariant

(* What a thread that may write knows. *)
LEMMA ImportKnows ==
  ASSUME OneImport, ImportInvariant, NEW i \in Import, Running(i),
         held[i] # NoJob \/ ~source
  PROVE  /\ thread[i] \in Threads /\ Counts(kind, thread[i])
         /\ source => held[i] \in Jobs /\ Fits(i, held[i], thread[i])
BY DEF ImportInvariant, ImportTypeOK, Threads, ThreadsCount, RecordsFollow

LEMMA BeginKeeps ==
  ASSUME OneImport, ImportInvariant, NEW i \in Import, BeginImport(i)
  PROVE  ImportInvariant'
<1> DEFINE t == [thread[i] EXCEPT !.phase = "fetch"]
           j == [held[i] EXCEPT !.status = "running"]
<1>1. /\ thread[i].phase = "begin" /\ Running(i)
      /\ thread' = [thread EXCEPT ![i] = t] /\ Write(i, j)
      /\ held[i] # NoJob \/ ~source
  BY DEF BeginImport, Running, Move, Write
<1>2. /\ thread[i] \in Threads /\ Counts(kind, thread[i])
      /\ source => held[i] \in Jobs /\ Fits(i, held[i], thread[i])
  BY <1>1, ImportKnows
<1>3. /\ t \in Threads /\ t.phase = "fetch"
      /\ t.total = thread[i].total /\ t.left = thread[i].left /\ t.tokens = thread[i].tokens
  BY <1>2 DEF Threads, ImportPhases
<1>4. source => /\ j \in Jobs /\ j.of = held[i].of /\ j.total = held[i].total
                /\ j.completed = held[i].completed /\ j.errors = held[i].errors
  BY <1>2 DEF Jobs
<1>5. Counts(kind, t)
  BY <1>1, <1>2, <1>3 DEF Counts
<1>6. source => Fits(i, j, t)
  BY <1>2, <1>3, <1>4 DEF Fits
<1>7. QED
  BY <1>1, <1>3, <1>4, <1>5, <1>6, ImportWrites DEF Fits

LEMMA FetchOneKeeps ==
  ASSUME OneImport, ImportInvariant, NEW i \in Import, NEW ok \in BOOLEAN,
         FetchOne(i, ok)
  PROVE  ImportInvariant'
<1> DEFINE plus == IF ok THEN 1 ELSE 0
           next == IF thread[i].left = 1 THEN "fetched" ELSE "fetch"
           t == [thread[i] EXCEPT !.left = @ - 1, !.tokens = IF ok THEN @ + 1 ELSE @,
                                  !.phase = next]
           j == [held[i] EXCEPT !.completed = @ + 1, !.errors = IF ok THEN @ ELSE @ + 1]
<1>1. /\ thread[i].phase = "fetch" /\ Running(i) /\ kind = "cpa"
      /\ thread' = [thread EXCEPT ![i] = t] /\ Write(i, j)
      /\ held[i] # NoJob \/ ~source
  BY DEF FetchOne, Running, Write
<1>2. /\ thread[i] \in Threads /\ Counts(kind, thread[i])
      /\ source => held[i] \in Jobs /\ Fits(i, held[i], thread[i])
  BY <1>1, ImportKnows
<1>3. /\ thread[i].left \in 1 .. Names /\ thread[i].tokens \in 0 .. Names
      /\ thread[i].total \in 0 .. Names /\ Names \in Nat
      /\ thread[i].tokens + thread[i].left <= thread[i].total
  BY <1>1, <1>2 DEF Counts, Threads, OneImport
<1>4. /\ thread[i].left - 1 \in 0 .. Names
      /\ (IF ok THEN thread[i].tokens + 1 ELSE thread[i].tokens) \in 0 .. Names
  BY <1>3
<1>5. /\ t \in Threads /\ t.phase = next /\ t.total = thread[i].total
      /\ t.left = thread[i].left - 1 /\ t.tokens = thread[i].tokens + plus
  <2>1. CASE ok
    BY <1>2, <1>4, <2>1 DEF Threads, ImportPhases
  <2>2. CASE ~ok
    <3>1. thread[i].tokens + 0 = thread[i].tokens
      BY <1>3
    <3>2. QED
      BY <1>2, <1>4, <2>2, <3>1 DEF Threads, ImportPhases
  <2>3. QED
    BY <2>1, <2>2
<1>6. source => /\ j \in Jobs /\ j.of = held[i].of /\ j.total = held[i].total
                /\ j.completed = held[i].completed + 1 /\ j.errors = held[i].errors + 1 - plus
  <2> DEFINE e == IF ok THEN held[i].errors ELSE held[i].errors + 1
  <2>1. SUFFICES ASSUME source
                 PROVE  /\ j \in Jobs /\ j.of = held[i].of /\ j.total = held[i].total
                        /\ j.completed = held[i].completed + 1
                        /\ j.errors = held[i].errors + 1 - plus
    OBVIOUS
  <2>2. held[i] \in Jobs /\ held[i].errors \in Nat
    BY <1>2, <2>1 DEF Jobs
  <2>3. e \in Nat /\ e = held[i].errors + 1 - plus
    BY <2>2
  <2>4. j = [held[i] EXCEPT !.completed = @ + 1, !.errors = e]
    OBVIOUS
  <2> HIDE DEF e, j
  <2>5. j.errors = e /\ j.completed = held[i].completed + 1
        /\ j.of = held[i].of /\ j.total = held[i].total
    BY <2>2, <2>4 DEF Jobs
  <2>6. held[i].completed + 1 \in Nat
    BY <2>2 DEF Jobs
  <2>7. j \in Jobs
    BY <2>2, <2>3, <2>4, <2>6 DEF Jobs
  <2>8. QED
    BY <2>3, <2>5, <2>7
<1>7. Counts(kind, t)
  BY <1>1, <1>3, <1>5 DEF Counts
<1>8. source => Fits(i, j, t)
  BY <1>2, <1>3, <1>5, <1>6 DEF Fits
<1>9. t.phase \notin {"none", "dead", "over"}
  BY <1>5
<1>10. QED
  BY <1>1, <1>5, <1>6, <1>7, <1>8, <1>9, ImportWrites DEF Fits

LEMMA FetchAllKeeps ==
  ASSUME OneImport, ImportInvariant, NEW i \in Import, NEW tokens \in 0 .. thread[i].total,
         FetchAll(i, tokens)
  PROVE  ImportInvariant'
<1> DEFINE t == [thread[i] EXCEPT !.left = 0, !.tokens = tokens, !.phase = "fetched"]
           j == [held[i] EXCEPT !.completed = thread[i].total,
                                !.errors = @ + thread[i].total - tokens]
<1>1. /\ thread[i].phase = "fetch" /\ Running(i) /\ kind = "sub2api"
      /\ thread' = [thread EXCEPT ![i] = t] /\ Write(i, j)
      /\ held[i] # NoJob \/ ~source
  BY DEF FetchAll, Running, Write
<1>2. /\ thread[i] \in Threads /\ Counts(kind, thread[i])
      /\ source => held[i] \in Jobs /\ Fits(i, held[i], thread[i])
  BY <1>1, ImportKnows
<1>3. /\ thread[i].total \in 0 .. Names /\ Names \in Nat
      /\ thread[i].left = thread[i].total /\ thread[i].tokens = 0
  BY <1>1, <1>2 DEF Counts, Threads, OneImport
<1>4. tokens \in 0 .. Names /\ tokens <= thread[i].total
  BY <1>3
<1>5. /\ t \in Threads /\ t.phase = "fetched" /\ t.total = thread[i].total
      /\ t.left = 0 /\ t.tokens = tokens
  BY <1>2, <1>3, <1>4 DEF Threads, ImportPhases
<1>6. source => held[i].errors = 0
  BY <1>2, <1>3 DEF Fits
<1>7. /\ thread[i].total \in Nat
      /\ thread[i].total - tokens \in Nat /\ 0 + thread[i].total - tokens = thread[i].total - tokens
  BY <1>3, <1>4
<1>8. source => /\ j \in Jobs /\ j.of = held[i].of /\ j.total = held[i].total
                /\ j.completed = thread[i].total /\ j.errors = thread[i].total - tokens
  BY <1>2, <1>6, <1>7 DEF Jobs
<1>9. Counts(kind, t)
  BY <1>4, <1>5 DEF Counts
<1>10. source => Fits(i, j, t)
  BY <1>2, <1>3, <1>4, <1>5, <1>8 DEF Fits
<1>11. QED
  BY <1>1, <1>5, <1>8, <1>9, <1>10, ImportWrites DEF Fits

LEMMA NothingKeeps ==
  ASSUME OneImport, ImportInvariant, NEW i \in Import, Nothing(i)
  PROVE  ImportInvariant'
<1> DEFINE t == [thread[i] EXCEPT !.phase = "over"]
           j == [held[i] EXCEPT !.status = "failed", !.completed = held[i].total]
<1>1. /\ thread[i].phase = "fetched" /\ Running(i) /\ thread[i].tokens = 0
      /\ thread' = [thread EXCEPT ![i] = t] /\ Write(i, j)
      /\ held[i] # NoJob \/ ~source
  BY DEF Nothing, Running, Move, Write
<1>2. /\ thread[i] \in Threads /\ Counts(kind, thread[i])
      /\ source => held[i] \in Jobs /\ Fits(i, held[i], thread[i])
  BY <1>1, ImportKnows
<1>3. /\ t \in Threads /\ t.phase = "over"
      /\ t.total = thread[i].total /\ t.left = thread[i].left /\ t.tokens = thread[i].tokens
  BY <1>2 DEF Threads, ImportPhases
<1>4. source => held[i].total \in Nat
  BY <1>2 DEF Jobs, OneImport
<1>5. source => /\ j \in Jobs /\ j.of = held[i].of /\ j.total = held[i].total
                /\ j.completed = held[i].total /\ j.errors = held[i].errors
                /\ j.status = "failed"
  BY <1>2, <1>4 DEF Jobs
<1>6. Counts(kind, t) /\ thread[i].left = 0
  BY <1>1, <1>2, <1>3 DEF Counts
<1>7. source => Tells(j, t) /\ j.of = i
  <2>1. thread[i].total \in Int
    BY <1>2 DEF Threads
  <2>2. QED
    BY <1>1, <1>2, <1>3, <1>5, <1>6, <2>1 DEF Fits, Tells
<1>8. QED
  BY <1>1, <1>3, <1>5, <1>6, <1>7, ImportWrites

LEMMA CompleteKeeps ==
  ASSUME OneImport, ImportInvariant, NEW i \in Import, Complete(i)
  PROVE  ImportInvariant'
<1> DEFINE t == [thread[i] EXCEPT !.phase = "over"]
           J(a) == [held[i] EXCEPT !.status = "completed", !.completed = thread[i].total,
                                   !.added = a]
<1>1. PICK a \in 0 .. thread[i].tokens : Write(i, J(a))
  BY DEF Complete
<1>2. /\ thread[i].phase = "added" /\ Running(i)
      /\ thread' = [thread EXCEPT ![i] = t]
      /\ held[i] # NoJob \/ ~source
  BY <1>1 DEF Complete, Running, Move, Write
<1>3. /\ thread[i] \in Threads /\ Counts(kind, thread[i])
      /\ source => held[i] \in Jobs /\ Fits(i, held[i], thread[i])
  BY <1>2, ImportKnows
<1>4. /\ t \in Threads /\ t.phase = "over"
      /\ t.total = thread[i].total /\ t.left = thread[i].left /\ t.tokens = thread[i].tokens
  BY <1>3 DEF Threads, ImportPhases
<1>5. thread[i].total \in Nat /\ a \in 0 .. Names
  BY <1>3 DEF Threads, OneImport
<1>6. source => /\ J(a) \in Jobs /\ J(a).of = held[i].of /\ J(a).total = held[i].total
                /\ J(a).completed = thread[i].total /\ J(a).errors = held[i].errors
                /\ J(a).status = "completed"
  BY <1>3, <1>5 DEF Jobs
<1>7. Counts(kind, t) /\ thread[i].left = 0 /\ thread[i].tokens > 0
  BY <1>2, <1>3, <1>4 DEF Counts
<1>8. source => Tells(J(a), t) /\ J(a).of = i
  BY <1>3, <1>4, <1>5, <1>6, <1>7 DEF Fits, Tells
<1>9. QED
  BY <1>1, <1>2, <1>4, <1>6, <1>7, <1>8, ImportWrites

LEMMA StartKeeps ==
  ASSUME OneImport, ImportInvariant, NEW i \in Import, NEW names \in 1 .. Names,
         Start(i, names)
  PROVE  ImportInvariant'
<1> DEFINE t == [phase |-> "begin", total |-> names, left |-> names, tokens |-> 0]
           j == [NoJob EXCEPT !.of = i, !.status = "pending", !.total = names]
<1>1. /\ ImportTypeOK /\ OnlyOneRuns /\ ThreadsCount /\ HeldByRunning
  BY DEF ImportInvariant
<1>2. /\ source /\ thread[i] = NoThread
      /\ \A k \in Import : ~Running(k)
      /\ job' = j /\ saved' = Normalized(j)
      /\ thread' = [thread EXCEPT ![i] = t]
      /\ UNCHANGED <<kind, source, held>>
  BY DEF Start, Store, OneImport
<1>3. names \in 0 .. Names /\ names \in Int /\ names > 0
  BY DEF OneImport
<1>4. t \in Threads /\ t.phase = "begin" /\ t.total = names /\ t.left = names /\ t.tokens = 0
  BY <1>3 DEF Threads, ImportPhases, OneImport
<1>5. /\ j \in Jobs /\ j.of = i /\ j.total = names /\ j.completed = 0 /\ j.errors = 0
  <2>1. /\ NoJob \in Jobs
        /\ NoJob.completed = 0 /\ NoJob.errors = 0
    BY NoJobTyped DEF NoJob
  <2>2. QED
    BY <1>3, <2>1 DEF Jobs
<1>6. thread'[i] = t /\ \A k \in Import : k # i => thread'[k] = thread[k]
  BY <1>1, <1>2 DEF ImportTypeOK
<1>7. ImportTypeOK'
  BY <1>1, <1>2, <1>4, <1>5, JobNormalized DEF ImportTypeOK, Threads
<1>8. saved' = Normalized(job)'
  BY <1>2 DEF Normalized, Unfinished
<1>9. \A k \in Import : Running(k)' => k = i
  BY <1>2, <1>6 DEF Running
<1>10. \A k \in Import : held'[k] = NoJob
  BY <1>1, <1>2 DEF HeldByRunning
<1>11. OnlyOneRuns' /\ HeldByRunning'
  BY <1>9, <1>10 DEF OnlyOneRuns, HeldByRunning, NoJob
<1>12. ThreadsCount'
  <2>1. Counts(kind, t)
    BY <1>3, <1>4 DEF Counts
  <2>2. QED
    BY <1>1, <1>2, <1>6, <2>1 DEF ThreadsCount
<1>13. RecordsFollow'
  <2>1. Fits(i, job', thread'[i])
    BY <1>2, <1>3, <1>4, <1>5, <1>6 DEF Fits
  <2>2. QED
    BY <1>9, <1>10, <2>1 DEF RecordsFollow, Fits, NoJob
<1>14. FinishedAddsUp'
  BY <1>2, <1>4, <1>5, <1>6 DEF FinishedAddsUp
<1>15. QED
  BY <1>7, <1>8, <1>11, <1>12, <1>13, <1>14 DEF ImportInvariant

LEMMA ReadKeeps ==
  ASSUME OneImport, ImportInvariant, NEW i \in Import, Read(i)
  PROVE  ImportInvariant'
<1>1. /\ source /\ Running(i) /\ held' = [held EXCEPT ![i] = job]
      /\ UNCHANGED <<kind, source, job, saved, thread>>
  BY DEF Read, Running
<1>2. ImportTypeOK'
  BY <1>1 DEF ImportInvariant, ImportTypeOK
<1>3. held'[i] = job /\ \A k \in Import : k # i => held'[k] = held[k]
  BY <1>1 DEF ImportInvariant, ImportTypeOK
<1>4. \A k \in Import : Running(k)' <=> Running(k)
  BY <1>1 DEF Running
<1>5. /\ saved' = Normalized(job)' /\ OnlyOneRuns' /\ ThreadsCount'
      /\ FinishedAddsUp'
  BY <1>1, <1>4 DEF ImportInvariant, OnlyOneRuns, ThreadsCount, FinishedAddsUp,
                    Normalized, Unfinished
<1>6. HeldByRunning' /\ RecordsFollow'
  BY <1>1, <1>3, <1>4 DEF ImportInvariant, HeldByRunning, RecordsFollow, Fits, NoJob
<1>7. QED
  BY <1>2, <1>5, <1>6 DEF ImportInvariant

LEMMA AddKeeps ==
  ASSUME OneImport, ImportInvariant, NEW i \in Import, Add(i)
  PROVE  ImportInvariant'
<1>1. /\ thread[i].phase = "fetched" /\ thread[i].tokens > 0 /\ held[i] = NoJob
      /\ UNCHANGED <<kind, source, job, saved, held>>
  BY DEF Add
<1>2. PICK next \in {"added", "dead"} :
        thread' = [thread EXCEPT ![i] = [thread[i] EXCEPT !.phase = next]]
  BY DEF Add, Move
<1> DEFINE t == [thread[i] EXCEPT !.phase = next]
<1>3. ImportTypeOK /\ OnlyOneRuns /\ ThreadsCount /\ HeldByRunning
  BY DEF ImportInvariant
<1>4. thread[i] \in Threads
  BY <1>3 DEF ImportTypeOK, Threads
<1>5. /\ t \in Threads /\ t.phase = next
      /\ t.total = thread[i].total /\ t.left = thread[i].left /\ t.tokens = thread[i].tokens
  BY <1>4 DEF Threads, ImportPhases
<1>6. thread'[i] = t /\ \A k \in Import : k # i => thread'[k] = thread[k]
  BY <1>2, <1>3 DEF ImportTypeOK
<1>7. ImportTypeOK'
  BY <1>1, <1>2, <1>3, <1>5 DEF ImportTypeOK, Threads
<1>8. Running(i) /\ \A k \in Import : Running(k)' => Running(k)
  BY <1>1, <1>6 DEF Running
<1>9. saved' = Normalized(job)' /\ OnlyOneRuns'
  BY <1>1, <1>3, <1>8 DEF ImportInvariant, OnlyOneRuns, Normalized, Unfinished
<1>10. ThreadsCount'
  <2>1. Counts(kind, t)
    BY <1>1, <1>3, <1>5 DEF ThreadsCount, Counts
  <2>2. QED
    BY <1>1, <1>3, <1>6, <2>1 DEF ThreadsCount
<1>11. HeldByRunning'
  BY <1>1, <1>3, <1>6 DEF HeldByRunning, Running, NoJob
<1>12. RecordsFollow'
  <2>1. SUFFICES ASSUME source, NEW k \in Import, Running(k)'
                 PROVE  Fits(k, job, thread'[k])
    BY <1>1, <1>11 DEF ImportInvariant, RecordsFollow, NoJob, HeldByRunning, Fits
  <2>2. k = i
    BY <1>3, <1>8, <2>1 DEF OnlyOneRuns
  <2>3. Fits(i, job, thread[i])
    BY <1>8, <2>1 DEF ImportInvariant, RecordsFollow
  <2>4. QED
    BY <1>5, <1>6, <2>2, <2>3 DEF Fits
<1>13. FinishedAddsUp'
  BY <1>1, <1>5, <1>6 DEF ImportInvariant, FinishedAddsUp
<1>14. QED
  BY <1>7, <1>9, <1>10, <1>11, <1>12, <1>13 DEF ImportInvariant

(* Administrators. *)
LEMMA ImportChanges ==
  ASSUME OneImport, ImportInvariant, UpdateSource \/ DeleteSource
  PROVE  ImportInvariant'
<1>1. /\ ImportTypeOK /\ OnlyOneRuns /\ ThreadsCount /\ HeldByRunning
      /\ UNCHANGED <<kind, thread, held>>
  BY DEF ImportInvariant, UpdateSource, DeleteSource
<1>2. \A k \in Import : Running(k)' <=> Running(k)
  BY <1>1 DEF Running
<1>3. OnlyOneRuns' /\ ThreadsCount' /\ HeldByRunning'
  BY <1>1, <1>2 DEF OnlyOneRuns, ThreadsCount, HeldByRunning, NoJob
<1>4. CASE UpdateSource
  <2>1. /\ source /\ source' = source /\ job' = Normalized(job)
        /\ saved' = Normalized(Normalized(job))
    BY <1>4 DEF UpdateSource, Store
  <2>2. job \in Jobs
    BY <1>1 DEF ImportTypeOK
  <2>3. /\ job' \in Jobs /\ saved' = job'
        /\ job'.of = job.of /\ job'.total = job.total /\ job'.completed = job.completed
        /\ job'.errors = job.errors
        /\ job.status \in {"completed", "failed"} => job' = job
    BY <2>1, <2>2, JobNormalized
  <2>4. saved' = Normalized(job)'
    BY <2>1, <2>2, <2>3, JobNormalized DEF Normalized, Unfinished
  <2>5. ImportTypeOK'
    BY <1>1, <2>1, <2>3 DEF ImportTypeOK
  <2>6. RecordsFollow'
    BY <1>1, <1>2, <2>1, <2>3 DEF ImportInvariant, RecordsFollow, Fits, NoJob
  <2>7. FinishedAddsUp'
    BY <1>1, <2>1, <2>3 DEF ImportInvariant, FinishedAddsUp
  <2>8. QED
    BY <1>3, <2>4, <2>5, <2>6, <2>7 DEF ImportInvariant
<1>5. CASE DeleteSource
  <2>1. /\ source' = FALSE /\ job' = NoJob /\ saved' = NoJob
    BY <1>5, NoJobTyped DEF DeleteSource, Store
  <2>2. saved' = Normalized(job)'
    BY <2>1, NoJobTyped DEF Normalized, Unfinished
  <2>3. ImportTypeOK'
    BY <1>1, <2>1, NoJobTyped DEF ImportTypeOK
  <2>4. RecordsFollow' /\ FinishedAddsUp'
    BY <2>1 DEF RecordsFollow, FinishedAddsUp
  <2>5. QED
    BY <1>3, <2>2, <2>3, <2>4 DEF ImportInvariant
<1>6. QED
  BY <1>4, <1>5

LEMMA ImportRestarts ==
  ASSUME OneImport, ImportInvariant, RestartProgram
  PROVE  ImportInvariant'
<1>1. /\ ImportTypeOK /\ ThreadsCount /\ saved = Normalized(job)
      /\ UNCHANGED <<kind, source, saved>> /\ job' = saved
      /\ held' = [i \in Import |-> NoJob]
  BY DEF ImportInvariant, RestartProgram
<1>2. ASSUME NEW i \in Import
      PROVE  /\ thread'[i] \in Threads /\ Counts(kind, thread'[i]) /\ ~Running(i)'
             /\ thread'[i].phase = "over" => thread'[i] = thread[i]
  <2>1. thread[i] \in Threads /\ Counts(kind, thread[i])
    BY <1>1 DEF ImportTypeOK, Threads, ThreadsCount
  <2>2. CASE Running(i)
    <3>1. thread'[i] = [thread[i] EXCEPT !.phase = "dead"]
      BY <2>2 DEF RestartProgram
    <3>2. /\ thread'[i] \in Threads /\ thread'[i].phase = "dead"
          /\ thread'[i].total = thread[i].total /\ thread'[i].left = thread[i].left
          /\ thread'[i].tokens = thread[i].tokens
      BY <2>1, <3>1 DEF Threads, ImportPhases
    <3>3. QED
      BY <2>1, <3>2 DEF Counts, Running
  <2>3. CASE ~Running(i)
    <3>1. thread'[i] = thread[i]
      BY <2>3 DEF RestartProgram
    <3>2. QED
      BY <2>1, <2>3, <3>1 DEF Running
  <2>4. QED
    BY <2>2, <2>3
<1>3. thread' \in [Import -> Threads]
  <2>1. thread' = [i \in Import |-> thread'[i]]
    BY DEF RestartProgram
  <2>2. QED
    BY <1>2, <2>1
<1>4. job \in Jobs
  BY <1>1 DEF ImportTypeOK
<1>5. /\ job' \in Jobs /\ job'.of = job.of
      /\ job.status \in {"completed", "failed"} => job' = job
      /\ Normalized(saved) = saved
  BY <1>1, <1>4, JobNormalized
<1>6. saved' = Normalized(job)'
  BY <1>1, <1>5 DEF Normalized, Unfinished
<1>7. ImportTypeOK'
  BY <1>1, <1>3, <1>5, NoJobTyped DEF ImportTypeOK, Threads
<1>8. OnlyOneRuns' /\ HeldByRunning' /\ RecordsFollow'
  BY <1>1, <1>2 DEF OnlyOneRuns, HeldByRunning, RecordsFollow, NoJob
<1>9. ThreadsCount'
  BY <1>1, <1>2 DEF ThreadsCount
<1>10. FinishedAddsUp'
  BY <1>1, <1>2, <1>5 DEF ImportInvariant, FinishedAddsUp
<1>11. QED
  BY <1>6, <1>7, <1>8, <1>9, <1>10 DEF ImportInvariant

LEMMA ImportSteps ==
  ASSUME OneImport, ImportInvariant, [ImportNext]_(importVars)
  PROVE  ImportInvariant'
<1>1. CASE UNCHANGED importVars
  BY <1>1 DEF importVars, ImportInvariant, ImportTypeOK, OnlyOneRuns, ThreadsCount,
              HeldByRunning, RecordsFollow, FinishedAddsUp, Running,
              Normalized, Unfinished, Counts, Fits, NoJob
<1>2. QED
  BY <1>1, BeginKeeps, FetchOneKeeps, FetchAllKeeps, NothingKeeps, CompleteKeeps, StartKeeps,
     ReadKeeps, AddKeeps, ImportChanges, ImportRestarts DEF ImportNext

(* When no two imports overlap, the record of one that is over adds up,    *)
(* although a thread reads and writes it under two holds of the lock and   *)
(* administrators store it in between (CPAImportService._update_job).      *)
THEOREM RecordsAddUp ==
  ASSUME OneImport
  PROVE  ImportSpec => []FinishedAddsUp
<1>1. ImportInvariant => FinishedAddsUp
  BY DEF ImportInvariant
<1>2. QED
  BY <1>1, ImportStarts, ImportSteps, PTL DEF ImportSpec

-----------------------------------------------------------------------------
(* The store of images (services/image_storage_service.py).                 *)

(* No writer comes between a reader's two steps, and an administrator      *)
(* switches among the modes with R2 or among those without.                *)
OneKindOfMode ==
  /\ ~SlowReader
  /\ \A ms \in Switches : ms \subseteq {"local", "webdav", "both"} \/ ms \subseteq {"r2", "r2_local"}

ModesMatch == modes \in Switches /\ mode \in modes

(* Entries name remote places, and R2 only where it is used.               *)
NamesPlaces(f) ==
  \A i \in DOMAIN f : f[i] \subseteq Place /\ (~R2Enabled => "r2" \notin f[i])

(* The cache, where there is one, says what the file says.                 *)
CacheIsIndex == reader = {} /\ cache \subseteq {index}

Recorded(i) == IF i \in DOMAIN index THEN index[i] ELSE {}

(* What is recorded, or about to be, of an image that is kept is there.    *)
Copied(i) ==
  /\ i \notin DOMAIN unlinked
  /\ \A p \in Recorded(i) : i \in remote[p]
  /\ i \in DOMAIN stored => /\ \A p \in stored[i] : i \in remote[p]
                            /\ i \in local \/ stored[i] # {}
  /\ i \notin DOMAIN stored => i \in local \/ Recorded(i) # {}

ImageInvariant ==
  /\ ModesMatch
  /\ DOMAIN remote = Place
  /\ NamesPlaces(index) /\ NamesPlaces(stored)
  /\ CacheIsIndex
  /\ \A i \in kept : Copied(i)

LEMMA ImageStarts ==
  ASSUME StoreInit
  PROVE  ImageInvariant
BY DEF StoreInit, NoIndex, ImageInvariant, ModesMatch, NamesPlaces, CacheIsIndex

(* Whether R2 is in use does not change, since all modes are of one kind.  *)
LEMMA ModesAlike ==
  ASSUME OneKindOfMode, ModesMatch, modes' = modes, mode' \in modes
  PROVE  /\ ModesMatch' /\ (R2Enabled' <=> R2Enabled)
         /\ mode \in {"local", "webdav", "both", "r2", "r2_local"}
BY DEF OneKindOfMode, ModesMatch, R2Enabled

(* A reader, with or without the cache, sees the file; and every place     *)
(* that it names is in use.                                                *)
LEMMA Loads ==
  ASSUME ImageInvariant
  PROVE  /\ Loaded = index
         /\ \A i : Named(i) = Recorded(i)
         /\ \A i : Used(Recorded(i)) = Recorded(i)
         /\ \A i : Recorded(i) \subseteq Place
<1>1. Loaded = index
  <2>1. CASE cache = {}
    BY <2>1 DEF Loaded
  <2>2. CASE cache # {}
    <3>1. cache = {index}
      BY <2>2 DEF ImageInvariant, CacheIsIndex
    <3>2. (CHOOSE x \in {index} : TRUE) = index
      OBVIOUS
    <3>3. QED
      BY <3>1, <3>2 DEF Loaded
  <2>3. QED
    BY <2>1, <2>2
<1>2. \A i : Named(i) = Recorded(i)
  BY <1>1 DEF Named, Recorded
<1>3. \A i : Recorded(i) \subseteq Place /\ (~R2Enabled => "r2" \notin Recorded(i))
  BY DEF ImageInvariant, NamesPlaces, Recorded
<1>4. \A i : Used(Recorded(i)) = Recorded(i)
  BY <1>3 DEF Used
<1>5. QED
  BY <1>1, <1>2, <1>3, <1>4

(* Where the copies of a new image may be. *)
LEMMA CopiesAre ==
  ASSUME mode \in {"local", "webdav", "both", "r2", "r2_local"}, NEW places \in Copies
  PROVE  /\ places \subseteq {"disk", "webdav", "r2"} /\ places # {}
         /\ ~R2Enabled => "r2" \notin places
<1>1. CASE mode = "local"
  BY <1>1 DEF Copies, R2Enabled
<1>2. CASE mode = "webdav"
  BY <1>2 DEF Copies, R2Enabled
<1>3. CASE mode = "both"
  BY <1>3 DEF Copies, R2Enabled
<1>4. CASE mode = "r2"
  BY <1>4 DEF Copies, R2Enabled
<1>5. CASE mode = "r2_local"
  BY <1>5 DEF Copies, R2Enabled
<1>6. QED
  BY <1>1, <1>2, <1>3, <1>4, <1>5

(* A step in which the modes rest and neither entries nor copies of what   *)
(* is kept get lost.                                                       *)
LEMMA ImagesHold ==
  ASSUME OneKindOfMode, ImageInvariant, modes' = modes, mode' \in modes,
         DOMAIN remote' = Place, reader' = {}, cache' \subseteq {index'},
         \A i \in DOMAIN index' : index'[i] \subseteq Place
                                  /\ (~R2Enabled => "r2" \notin index'[i]),
         \A i \in DOMAIN stored' : stored'[i] \subseteq Place
                                   /\ (~R2Enabled => "r2" \notin stored'[i]),
         \A i \in kept' : Copied(i)'
  PROVE  ImageInvariant'
<1>1. ModesMatch' /\ (R2Enabled' <=> R2Enabled)
  BY ModesAlike DEF ImageInvariant
<1>2. NamesPlaces(index)' /\ NamesPlaces(stored)'
  BY <1>1 DEF NamesPlaces, Place
<1>3. CacheIsIndex'
  BY DEF CacheIsIndex
<1>4. QED
  BY <1>1, <1>2, <1>3 DEF ImageInvariant, Place

(* What holds of the present state. *)
LEMMA ImagesKnow ==
  ASSUME OneKindOfMode, ImageInvariant
  PROVE  /\ modes \in Switches /\ mode \in modes
         /\ mode \in {"local", "webdav", "both", "r2", "r2_local"}
         /\ DOMAIN remote = Place /\ reader = {} /\ cache \subseteq {index}
         /\ \A i \in DOMAIN index : index[i] \subseteq Place
                                    /\ (~R2Enabled => "r2" \notin index[i])
         /\ \A i \in DOMAIN stored : stored[i] \subseteq Place
                                     /\ (~R2Enabled => "r2" \notin stored[i])
         /\ \A i \in kept : Copied(i)
<1>1. mode \in {"local", "webdav", "both", "r2", "r2_local"}
  BY DEF OneKindOfMode, ImageInvariant, ModesMatch
<1>2. QED
  BY <1>1 DEF ImageInvariant, ModesMatch, NamesPlaces, CacheIsIndex

LEMMA PutKeeps ==
  ASSUME OneKindOfMode, ImageInvariant, NEW i \in Image, Put(i)
  PROVE  ImageInvariant'
<1>1. /\ i \notin DOMAIN stored \cup DOMAIN index \cup DOMAIN unlinked
      /\ kept' = kept \cup {i}
      /\ UNCHANGED <<modes, mode, index, cache, reader, unlinked>>
  BY DEF Put
<1>2. PICK places \in Copies :
        /\ stored' = [j \in DOMAIN stored \cup {i} |->
                        IF j = i THEN places \cap Place ELSE stored[j]]
        /\ local' = IF "disk" \in places THEN local \cup {i} ELSE local
        /\ remote' = [p \in Place |->
                        IF p \in places THEN remote[p] \cup {i} ELSE remote[p]]
  BY DEF Put
<1>3. /\ places \subseteq {"disk", "webdav", "r2"} /\ places # {}
      /\ ~R2Enabled => "r2" \notin places
  BY ImagesKnow, CopiesAre
<1>4. /\ DOMAIN stored' = DOMAIN stored \cup {i} /\ stored'[i] = places \cap Place
      /\ \A j \in DOMAIN stored : stored'[j] = stored[j]
  BY <1>1, <1>2
<1>5. \A p \in Place : remote[p] \subseteq remote'[p] /\ (p \in places => i \in remote'[p])
  BY <1>2
<1>6. \A j \in DOMAIN stored' : stored'[j] \subseteq Place
                                /\ (~R2Enabled => "r2" \notin stored'[j])
  BY <1>3, <1>4, ImagesKnow
<1>7. \A j : Recorded(j)' = Recorded(j)
  BY <1>1 DEF Recorded
<1>8. Copied(i)'
  <2>1. Recorded(i)' = {} /\ i \notin DOMAIN unlinked'
    BY <1>1, <1>7 DEF Recorded
  <2>2. \A p \in stored'[i] : i \in remote'[p]
    BY <1>4, <1>5
  <2>3. i \in local' \/ stored'[i] # {}
    BY <1>2, <1>3, <1>4 DEF Place
  <2>4. QED
    BY <1>4, <2>1, <2>2, <2>3 DEF Copied
<1>9. ASSUME NEW j \in kept, j # i
      PROVE  Copied(j)'
  <2>1. Copied(j)
    BY ImagesKnow
  <2>2. j \in local => j \in local'
    BY <1>2
  <2>3. Recorded(j) \subseteq Place
    BY Loads
  <2>4. j \in DOMAIN stored => stored[j] \subseteq Place
    BY ImagesKnow
  <2>5. QED
    BY <1>1, <1>4, <1>5, <1>7, <1>9, <2>1, <2>2, <2>3, <2>4 DEF Copied
<1>10. DOMAIN remote' = Place
  BY <1>2
<1>11. QED
  BY <1>1, <1>6, <1>8, <1>9, <1>10, ImagesKnow, ImagesHold

LEMMA RecordKeeps ==
  ASSUME OneKindOfMode, ImageInvariant, NEW i \in Image, Record(i)
  PROVE  ImageInvariant'
<1>1. /\ i \in DOMAIN stored /\ Loaded = index
      /\ index' = [j \in DOMAIN index \cup {i} |-> IF j = i THEN stored[i] ELSE index[j]]
      /\ cache' = {}
      /\ stored' = [j \in DOMAIN stored \ {i} |-> stored[j]]
      /\ UNCHANGED <<modes, mode, local, remote, reader, unlinked, kept>>
  BY Loads DEF Record, Save, Restrict
<1>2. /\ \A j \in DOMAIN index' : index'[j] = IF j = i THEN stored[i] ELSE index[j]
      /\ DOMAIN index' = DOMAIN index \cup {i}
      /\ DOMAIN stored' = DOMAIN stored \ {i}
      /\ \A j \in DOMAIN stored' : stored'[j] = stored[j]
  BY <1>1
<1>3. \A j : Recorded(j)' = IF j = i THEN stored[i] ELSE Recorded(j)
  BY <1>2 DEF Recorded
<1>4. \A j \in DOMAIN index' : index'[j] \subseteq Place
                               /\ (~R2Enabled => "r2" \notin index'[j])
  BY <1>1, <1>2, ImagesKnow
<1>5. \A j \in DOMAIN stored' : stored'[j] \subseteq Place
                                /\ (~R2Enabled => "r2" \notin stored'[j])
  BY <1>2, ImagesKnow
<1>6. ASSUME NEW j \in kept
      PROVE  Copied(j)'
  <2>1. Copied(j)
    BY ImagesKnow
  <2>2. CASE j = i
    BY <1>1, <1>2, <1>3, <2>1, <2>2 DEF Copied
  <2>3. CASE j # i
    BY <1>1, <1>2, <1>3, <2>1, <2>3 DEF Copied
  <2>4. QED
    BY <2>2, <2>3
<1>7. QED
  BY <1>1, <1>4, <1>5, <1>6, ImagesKnow, ImagesHold

(* Readers, expiry and the switch of modes. *)
LEMMA LooksKeep ==
  ASSUME OneKindOfMode, ImageInvariant,
         modes' = modes, mode' \in modes, cache' \subseteq {index}, reader' = {},
         UNCHANGED <<local, remote, index, stored, unlinked, kept>>
  PROVE  ImageInvariant'
<1>1. \A i \in kept : Copied(i)'
  BY ImagesKnow DEF Copied, Recorded
<1>2. QED
  BY <1>1, ImagesKnow, ImagesHold

LEMMA ListKeeps ==
  ASSUME OneKindOfMode, ImageInvariant, ListItems
  PROVE  ImageInvariant'
<1> DEFINE D == {j \in local \cup DOMAIN index : j \in local \/ Recorded(j) # {}}
<1>1. /\ Loaded = index
      /\ \A j : Named(j) = Recorded(j) /\ Used(Named(j)) = Recorded(j)
  BY Loads
<1>2. UNCHANGED <<modes, mode, local, remote, reader, stored, unlinked, kept>>
  BY DEF ListItems
<1> DEFINE items == [i \in {j \in local \cup DOMAIN Loaded :
                              j \in local \/ Used(Named(j)) # {}} |-> Named(i)]
<1>3. IF items = Loaded THEN OnlyRead ELSE Save(items)
  BY DEF ListItems
<1>4. DOMAIN items = D /\ \A j \in D : items[j] = Recorded(j)
  BY <1>1
<1> HIDE DEF items
<1>5. index' = items /\ cache' \subseteq {index'}
  BY <1>1, <1>3 DEF OnlyRead, Save
<1>6. \A j : Recorded(j)' = Recorded(j)
  <2>1. ASSUME NEW j, j \in D
        PROVE  Recorded(j)' = Recorded(j)
    BY <1>4, <1>5, <2>1 DEF Recorded
  <2>2. ASSUME NEW j, j \notin D
        PROVE  Recorded(j)' = Recorded(j)
    <3>1. Recorded(j)' = {}
      BY <1>4, <1>5, <2>2 DEF Recorded
    <3>2. Recorded(j) = {}
      BY <2>2 DEF Recorded
    <3>3. QED
      BY <3>1, <3>2
  <2>3. QED
    BY <2>1, <2>2
<1>7. \A j \in DOMAIN index' : index'[j] \subseteq Place
                               /\ (~R2Enabled => "r2" \notin index'[j])
  <2>1. \A j : Recorded(j) \subseteq Place /\ (~R2Enabled => "r2" \notin Recorded(j))
    BY ImagesKnow DEF Recorded
  <2>2. QED
    BY <1>4, <1>5, <2>1
<1>8. \A j \in kept : Copied(j)'
  BY <1>2, <1>6, ImagesKnow DEF Copied
<1>9. QED
  BY <1>2, <1>5, <1>7, <1>8, ImagesKnow, ImagesHold

LEMMA SyncKeeps ==
  ASSUME OneKindOfMode, ImageInvariant, Sync
  PROVE  ImageInvariant'
<1> DEFINE T == Target
<1>1. /\ T \in Place /\ (~R2Enabled => T # "r2")
      /\ UNCHANGED <<modes, mode, local, reader, stored, unlinked, kept>>
  BY DEF Sync, Target, Place, R2Enabled
<1>2. PICK copies :
        /\ remote' = [remote EXCEPT ![T] = @ \cup copies]
        /\ index' = [j \in DOMAIN Loaded \cup copies |->
                       IF j \in copies THEN Named(j) \cup {T} ELSE Loaded[j]]
        /\ cache' = {}
  BY DEF Sync, Save
<1>3. /\ DOMAIN index' = DOMAIN index \cup copies
      /\ \A j \in DOMAIN index' : index'[j] = IF j \in copies THEN Recorded(j) \cup {T} ELSE index[j]
  BY <1>2, Loads
<1>4. \A j : Recorded(j)' = IF j \in copies THEN Recorded(j) \cup {T} ELSE Recorded(j)
  BY <1>3 DEF Recorded
<1>5. /\ DOMAIN remote' = Place
      /\ \A p \in Place : remote[p] \subseteq remote'[p] /\ (p = T => copies \subseteq remote'[p])
  BY <1>1, <1>2, ImagesKnow
<1>6. \A j \in DOMAIN index' : index'[j] \subseteq Place
                               /\ (~R2Enabled => "r2" \notin index'[j])
  <2>1. \A j : Recorded(j) \subseteq Place /\ (~R2Enabled => "r2" \notin Recorded(j))
    BY ImagesKnow DEF Recorded
  <2>2. \A j \in DOMAIN index' : index'[j] \subseteq Recorded(j) \cup {T}
    BY <1>3 DEF Recorded
  <2>3. QED
    BY <1>1, <2>1, <2>2
<1>7. ASSUME NEW j \in kept
      PROVE  Copied(j)'
  <2>1. Copied(j) /\ Recorded(j) \subseteq Place
    BY ImagesKnow, Loads
  <2>2. j \in DOMAIN stored => stored[j] \subseteq Place
    BY ImagesKnow
  <2>3. \A p \in Recorded(j)' : j \in remote'[p]
    BY <1>1, <1>4, <1>5, <2>1 DEF Copied
  <2>4. Recorded(j) \subseteq Recorded(j)'
    BY <1>4
  <2>5. QED
    BY <1>1, <1>5, <2>1, <2>2, <2>3, <2>4 DEF Copied
<1>8. QED
  BY <1>1, <1>2, <1>5, <1>6, <1>7, ImagesKnow, ImagesHold

LEMMA UnlinkKeeps ==
  ASSUME OneKindOfMode, ImageInvariant, NEW i \in Image, Unlink(i)
  PROVE  ImageInvariant'
<1>1. /\ DOMAIN unlinked' = DOMAIN unlinked \cup {i}
      /\ local' = local \ {i} /\ kept' = kept \ {i}
      /\ UNCHANGED <<modes, mode, remote, index, cache, reader, stored>>
  BY DEF Unlink
<1>2. \A j \in kept' : Copied(j)'
  BY <1>1, ImagesKnow DEF Copied, Recorded
<1>3. QED
  BY <1>1, <1>2, ImagesKnow, ImagesHold

LEMMA DeleteKeeps ==
  ASSUME OneKindOfMode, ImageInvariant, NEW i \in Image, DeleteCopies(i)
  PROVE  ImageInvariant'
<1>1. /\ i \in DOMAIN unlinked /\ DOMAIN unlinked' = DOMAIN unlinked \ {i}
      /\ UNCHANGED <<modes, mode, local, reader, stored, kept>>
  BY DEF DeleteCopies, Restrict
<1>2. /\ DOMAIN remote' = Place
      /\ \A p \in Place : remote[p] \ {i} \subseteq remote'[p]
  BY DEF DeleteCopies
<1>3. /\ cache' \subseteq {index'}
      /\ index' = index \/ index' = [j \in DOMAIN index \ {i} |-> index[j]]
  BY Loads DEF DeleteCopies, Restrict, Save, OnlyRead
<1>4. /\ DOMAIN index' \subseteq DOMAIN index
      /\ \A j \in DOMAIN index' : index'[j] = index[j]
      /\ \A j \in DOMAIN index : j # i => j \in DOMAIN index'
  BY <1>3
<1>5. \A j : j # i => Recorded(j)' = Recorded(j)
  BY <1>4 DEF Recorded
<1>6. \A j \in DOMAIN index' : index'[j] \subseteq Place
                               /\ (~R2Enabled => "r2" \notin index'[j])
  BY <1>4, ImagesKnow
<1>7. ASSUME NEW j \in kept
      PROVE  Copied(j)'
  <2>1. Copied(j) /\ Recorded(j) \subseteq Place
    BY ImagesKnow, Loads
  <2>2. j # i
    BY <1>1, <2>1 DEF Copied
  <2>3. j \in DOMAIN stored => stored[j] \subseteq Place
    BY ImagesKnow
  <2>4. QED
    BY <1>1, <1>2, <1>5, <2>1, <2>2, <2>3 DEF Copied
<1>8. QED
  BY <1>1, <1>2, <1>3, <1>6, <1>7, ImagesKnow, ImagesHold

LEMMA CleanKeeps ==
  ASSUME OneKindOfMode, ImageInvariant, NEW i \in Image, Clean(i)
  PROVE  ImageInvariant'
<1> DEFINE places == IF i \in DOMAIN stored THEN stored[i] ELSE Recorded(i)
<1>1. /\ local' = local \ {i}
      /\ kept' = IF places # {} THEN kept ELSE kept \ {i}
      /\ UNCHANGED <<modes, mode, remote, index, cache, reader, stored, unlinked>>
  BY Loads DEF Clean
<1>2. ASSUME NEW j \in kept'
      PROVE  Copied(j)'
  <2>1. Copied(j)
    BY <1>1, ImagesKnow
  <2>2. Recorded(j)' = Recorded(j)
    BY <1>1 DEF Recorded
  <2>3. CASE j = i
    BY <1>1, <2>1, <2>2, <2>3 DEF Copied
  <2>4. CASE j # i
    BY <1>1, <2>1, <2>2, <2>4 DEF Copied
  <2>5. QED
    BY <2>3, <2>4
<1>3. QED
  BY <1>1, <1>2, ImagesKnow, ImagesHold

LEMMA ImageSteps ==
  ASSUME OneKindOfMode, ImageInvariant, [StoreNext]_(storeVars)
  PROVE  ImageInvariant'
<1>1. CASE Look
  BY <1>1 DEF Look, OneKindOfMode
<1>2. CASE Remember
  BY <1>2, ImagesKnow, LooksKeep DEF Remember
<1>3. CASE Expire
  BY <1>3, ImagesKnow, LooksKeep DEF Expire
<1>4. ASSUME NEW to, Switch(to)
      PROVE  ImageInvariant'
  BY <1>4, ImagesKnow, LooksKeep DEF Switch
<1>5. CASE UNCHANGED storeVars
  BY <1>5, ImagesKnow, LooksKeep DEF storeVars
<1>6. QED
  BY <1>1, <1>2, <1>3, <1>4, <1>5, PutKeeps, RecordKeeps, ListKeeps, SyncKeeps, UnlinkKeeps,
     DeleteKeeps, CleanKeeps DEF StoreNext

(* What was saved is found until it is deleted, or cleaned up with no      *)
(* other copy, for any images and any administrator, as long as the modes  *)
(* he switches among are of one kind and no reader is overtaken            *)
(* (ImageStorageService.get_bytes).                                        *)
THEOREM SavedIsFound ==
  ASSUME OneKindOfMode
  PROVE  StoreSpec => []KeptIsFound
<1>1. ImageInvariant => KeptIsFound
  BY Loads DEF ImageInvariant, Copied, KeptIsFound, Found
<1>2. QED
  BY <1>1, ImageStarts, ImageSteps, PTL DEF StoreSpec

-----------------------------------------------------------------------------
(* The request log (services/log_service.py, services/usage_agg.py).       *)

LogTypes ==
  /\ today \in Day /\ logged \in 0 .. MaxLogged
  /\ DOMAIN file \subseteq File /\ file \in [DOMAIN file -> Seq(1 .. logged)]
  /\ gone \in [{"deleted", "trimmed", "expired", "raced"} -> SUBSET (1 .. logged)]
  /\ counted \in [Entry -> Nat] /\ offset \in [File -> Nat]

(* An entry is one line of one file. *)
OncePlaced ==
  \A f, g \in DOMAIN file : \A n \in DOMAIN file[f], m \in DOMAIN file[g] :
    file[f][n] = file[g][m] => f = g /\ n = m

(* The lines to, in the place of the lines from, move no line down.        *)
MovesUp(to, from) ==
  /\ \A n \in DOMAIN to : \E m \in DOMAIN from : n <= m /\ from[m] = to[n]
  /\ \A n, m \in DOMAIN to : to[n] = to[m] => n = m

(* What the holder of the lock is about to write: the lines of the file,   *)
(* without what it drops and what was appended since it read them.         *)
EditFits ==
  IF lock = Nobody THEN edit = NoEdit ELSE
    /\ edit.file \in DOMAIN file /\ edit.to \in Seq(1 .. logged)
    /\ MovesUp(edit.to, file[edit.file])
    /\ edit.drops \subseteq ToSet(file[edit.file])
    /\ edit.drops \cap ToSet(edit.to) = {}
    /\ ToSet(file[edit.file]) \subseteq ToSet(edit.to) \cup edit.drops \cup gone.raced

(* With a file per day and entries that have identifiers, no line becomes  *)
(* longer, and what is behind the offset has not been counted.             *)
CountsFit ==
  strategy = "day" /\ withId =>
    /\ CountedOnce
    /\ long = {}
    /\ \A e \in Entry : e > logged => counted[e] = 0
    /\ \A f \in DOMAIN file : \A n \in DOMAIN file[f] : n > offset[f] => counted[file[f][n]] = 0

(* Where the entries are, as RewritesKeepTheRest says. *)
Present(e) == \E f \in DOMAIN file : \E n \in DOMAIN file[f] : file[f][n] = e
Removed(e) == e \in gone.deleted \cup gone.trimmed \cup gone.expired
EntriesKept ==
  \A e \in 1 .. logged :
    /\ Present(e) \/ Removed(e) \/ e \in gone.raced
    /\ ~(Present(e) /\ Removed(e))

(* With a file per day nobody rolls a file over. *)
RollsFit ==
  /\ at \in [Writer -> {"idle", "clean", "roll"}]
  /\ strategy = "day" => \A w \in Writer : at[w] # "roll"

LogInvariant ==
  /\ LogTypes
  /\ OncePlaced
  /\ EditFits
  /\ EntriesKept
  /\ CountsFit

LEMMA KeptIsPromised ==
  ASSUME LogTypes, EntriesKept
  PROVE  RewritesKeepTheRest
<1>1. \A e : (\E f \in File : In(e, f)) <=> Present(e)
  BY DEF LogTypes, In, Present, ToSet
<1> QED
  BY <1>1 DEF EntriesKept, RewritesKeepTheRest, Removed

LEMMA LogStarts ==
  ASSUME LogInit
  PROVE  LogInvariant
<1> USE LogAssumption DEF LogAssumption, LogInit
<1>1. DOMAIN file = {} /\ logged = 0
  OBVIOUS
<1>2. LogTypes
  <2>1. 1 \in Day /\ file \in [DOMAIN file -> Seq(1 .. logged)]
    BY <1>1 DEF Day
  <2>2. gone \in [{"deleted", "trimmed", "expired", "raced"} -> SUBSET (1 .. logged)]
    OBVIOUS
  <2> QED
    BY <1>1, <2>1, <2>2 DEF LogTypes
<1>3. OncePlaced
  BY <1>1 DEF OncePlaced
<1>4. EditFits
  BY DEF EditFits
<1>5. EntriesKept
  BY <1>1 DEF EntriesKept
<1>6. CountsFit
  BY <1>1 DEF CountsFit, CountedOnce
<1> QED
  BY <1>2, <1>3, <1>4, <1>5, <1>6 DEF LogInvariant

-----------------------------------------------------------------------------
(* What the steps do to the files. *)

LEMMA SeqMonotone ==
  ASSUME NEW S, NEW T, S \subseteq T, NEW s \in Seq(S)
  PROVE  s \in Seq(T)
<1>1. Len(s) \in Nat /\ DOMAIN s = 1 .. Len(s) /\ s = [i \in 1 .. Len(s) |-> s[i]]
  OBVIOUS
<1>2. \A i \in 1 .. Len(s) : s[i] \in T
  OBVIOUS
<1> QED
  BY <1>1, <1>2, IsASeq

LEMMA LinesLogged ==
  ASSUME LogTypes, NEW f \in DOMAIN file
  PROVE  /\ f \in File /\ file[f] \in Seq(1 .. logged) /\ logged \in Nat
         /\ \A n \in DOMAIN file[f] : n \in Nat /\ file[f][n] \in 1 .. logged /\ file[f][n] \in Entry
         /\ ToSet(file[f]) \subseteq 1 .. logged
<1>1. f \in File /\ file[f] \in Seq(1 .. logged) /\ logged \in 0 .. MaxLogged
  BY DEF LogTypes
<1>2. \A n \in DOMAIN file[f] : n \in Nat /\ file[f][n] \in 1 .. logged
  BY <1>1
<1>3. 1 .. logged \subseteq Entry
  BY <1>1, LogAssumption DEF LogAssumption, Entry
<1> QED
  BY <1>1, <1>2, <1>3, LogAssumption DEF ToSet, LogAssumption

LEMMA FileWritten ==
  ASSUME LogTypes, NEW f \in File, NEW lines \in Seq(Nat), WriteFile(f, lines)
  PROVE  /\ DOMAIN file' = DOMAIN file \cup {f}
         /\ file'[f] = lines
         /\ \A g \in DOMAIN file \ {f} : file'[g] = file[g]
         /\ DOMAIN file' \subseteq File
         /\ lines \in Seq(1 .. logged') /\ logged' \in Nat /\ logged <= logged' =>
              file' \in [DOMAIN file' -> Seq(1 .. logged')]
<1> USE DEF WriteFile, LogTypes
<1>1. DOMAIN file' = DOMAIN file \cup {f}
  OBVIOUS
<1>2. file'[f] = lines /\ \A g \in DOMAIN file \ {f} : file'[g] = file[g]
  OBVIOUS
<1>3. ASSUME lines \in Seq(1 .. logged'), logged' \in Nat, logged <= logged'
      PROVE  file' \in [DOMAIN file' -> Seq(1 .. logged')]
  <2>1. 1 .. logged \subseteq 1 .. logged'
    BY <1>3
  <2>2. ASSUME NEW g \in DOMAIN file
        PROVE  file[g] \in Seq(1 .. logged')
    <3>1. file[g] \in Seq(1 .. logged)
      OBVIOUS
    <3> QED
      BY <3>1, <2>1, SeqMonotone
  <2> QED
    BY <1>3, <2>2
<1> QED
  BY <1>1, <1>2, <1>3

LEMMA SuffixMovesUp ==
  ASSUME NEW N \in Nat, NEW lines \in Seq(1 .. N), Len(lines) > KeepLines,
         \A n, m \in DOMAIN lines : lines[n] = lines[m] => n = m
  PROVE  LET drops == ToSet(SubSeq(lines, 1, Len(lines) - KeepLines)) IN
         /\ Kept(lines) \in Seq(1 .. N) /\ MovesUp(Kept(lines), lines)
         /\ drops \subseteq ToSet(lines) /\ drops \cap ToSet(Kept(lines)) = {}
         /\ ToSet(lines) \subseteq ToSet(Kept(lines)) \cup drops
<1> DEFINE d == Len(lines) - KeepLines
           dropped == SubSeq(lines, 1, d)
<1>1. KeepLines \in Nat /\ Len(lines) \in Nat /\ d \in 1 .. Len(lines) /\ DOMAIN lines = 1 .. Len(lines)
  BY LogAssumption DEF LogAssumption
<1>2. /\ Kept(lines) \in Seq(1 .. N) /\ Len(Kept(lines)) = KeepLines
      /\ \A i \in 1 .. KeepLines : Kept(lines)[i] = lines[d + i]
  <2>1. \A i \in d + 1 .. Len(lines) : lines[i] \in 1 .. N
    BY <1>1
  <2>2. Kept(lines) = SubSeq(lines, d + 1, Len(lines))
    BY DEF Kept
  <2> HIDE DEF d
  <2>3. Len(lines) - d = KeepLines
    BY <1>1 DEF d
  <2>4. /\ SubSeq(lines, d + 1, Len(lines)) \in Seq(1 .. N)
        /\ Len(SubSeq(lines, d + 1, Len(lines))) =
             IF d + 1 <= Len(lines) THEN Len(lines) - (d + 1) + 1 ELSE 0
        /\ \A i \in 1 .. Len(lines) - (d + 1) + 1 :
             SubSeq(lines, d + 1, Len(lines))[i] = lines[(d + 1) + i - 1]
    BY <1>1, <2>1, SubSeqProperties
  <2>5. d \in Int /\ Len(lines) \in Nat /\ KeepLines \in Nat
    BY <1>1
  <2>7. Len(lines) - (d + 1) + 1 = KeepLines
    BY <2>3, <2>5
  <2>8. Len(Kept(lines)) = KeepLines
    BY <2>2, <2>3, <2>4, <2>5
  <2>6. \A i \in 1 .. KeepLines : (d + 1) + i - 1 = d + i
    BY <1>1
  <2> QED
    BY <2>2, <2>4, <2>6, <2>7, <2>8
<1>3. Len(dropped) = d /\ DOMAIN dropped = 1 .. d /\ \A i \in 1 .. d : dropped[i] = lines[i]
  <2>1. \A i \in 1 .. d : lines[i] \in 1 .. N
    BY <1>1
  <2> HIDE DEF d
  <2> QED
    BY <1>1, <2>1, SubSeqProperties
<1>4. DOMAIN Kept(lines) = 1 .. KeepLines
  BY <1>1, <1>2
<1>5. MovesUp(Kept(lines), lines)
  <2>1. ASSUME NEW n \in DOMAIN Kept(lines)
        PROVE  d + n \in DOMAIN lines /\ n <= d + n /\ lines[d + n] = Kept(lines)[n]
    <3>1. d + KeepLines = Len(lines) /\ n \in 1 .. KeepLines
      BY <1>1, <1>4, <2>1
    <3>2. lines[d + n] = Kept(lines)[n]
      BY <1>2, <3>1
    <3> HIDE DEF d
    <3>3. d + n \in DOMAIN lines /\ n <= d + n
      BY <1>1, <3>1
    <3> QED
      BY <3>2, <3>3
  <2>2. ASSUME NEW n \in DOMAIN Kept(lines), NEW m \in DOMAIN Kept(lines),
               Kept(lines)[n] = Kept(lines)[m]
        PROVE  n = m
    <3>1. d + n = d + m
      BY <2>1, <2>2
    <3> QED
      BY <3>1, <1>1, <1>4
  <2> QED
    BY <2>1, <2>2 DEF MovesUp
<1>6. ToSet(dropped) \subseteq ToSet(lines)
  BY <1>1, <1>3 DEF ToSet
<1>7. ToSet(dropped) \cap ToSet(Kept(lines)) = {}
  <2> SUFFICES ASSUME NEW i \in DOMAIN dropped, NEW j \in DOMAIN Kept(lines), dropped[i] = Kept(lines)[j]
               PROVE  FALSE
    BY DEF ToSet
  <2>1. i \in DOMAIN lines /\ d + j \in DOMAIN lines /\ i # d + j
    <3>1. i \in 1 .. d /\ j \in 1 .. KeepLines /\ d + KeepLines = Len(lines)
      BY <1>1, <1>3, <1>4
    <3> HIDE DEF d
    <3> QED
      BY <3>1, <1>1
  <2> QED
    BY <2>1, <1>2, <1>3, <1>4
<1>8. ToSet(lines) \subseteq ToSet(Kept(lines)) \cup ToSet(dropped)
  <2> SUFFICES ASSUME NEW i \in DOMAIN lines
               PROVE  lines[i] \in ToSet(Kept(lines)) \cup ToSet(dropped)
    BY DEF ToSet
  <2>1. CASE i <= d
    <3>1. i \in DOMAIN dropped /\ dropped[i] = lines[i]
      BY <2>1, <1>1, <1>3
    <3> QED
      BY <3>1 DEF ToSet
  <2>2. CASE i > d
    <3>1. i - d \in DOMAIN Kept(lines) /\ d + (i - d) = i
      BY <2>2, <1>1, <1>4
    <3>2. Kept(lines)[i - d] = lines[i]
      BY <3>1, <1>2, <1>4
    <3> QED
      BY <3>1, <3>2 DEF ToSet
  <2> QED
    BY <2>1, <2>2, <1>1
<1> QED
  BY <1>2, <1>5, <1>6, <1>7, <1>8

LEMMA OneLineLess ==
  ASSUME NEW N \in Nat, NEW lines \in Seq(1 .. N), NEW n \in DOMAIN lines,
         \A i, j \in DOMAIN lines : lines[i] = lines[j] => i = j
  PROVE  LET to == Without(lines, n) IN
         /\ to \in Seq(1 .. N) /\ MovesUp(to, lines)
         /\ lines[n] \in ToSet(lines) /\ lines[n] \notin ToSet(to)
         /\ ToSet(lines) \subseteq ToSet(to) \cup {lines[n]}
<1> DEFINE to == Without(lines, n)
           from(i) == IF i < n THEN i ELSE i + 1
<1>1. Len(lines) \in Nat \ {0} /\ DOMAIN lines = 1 .. Len(lines) /\ n \in 1 .. Len(lines)
  OBVIOUS
<1>2. DOMAIN to = 1 .. Len(lines) - 1
  BY DEF Without
<1>3. ASSUME NEW i \in DOMAIN to
      PROVE  /\ from(i) \in DOMAIN lines /\ i <= from(i) /\ from(i) # n
             /\ to[i] = lines[from(i)] /\ to[i] \in 1 .. N
  <2>1. i \in Int /\ from(i) \in DOMAIN lines /\ i <= from(i) /\ from(i) # n
    BY <1>1, <1>2
  <2>2. to[i] = lines[from(i)]
    BY <1>2 DEF Without
  <2> QED
    BY <2>1, <2>2
<1>4. to \in Seq(1 .. N)
  BY <1>1, <1>2, <1>3 DEF Without
<1>5. MovesUp(to, lines)
  <2>1. ASSUME NEW i \in DOMAIN to, NEW j \in DOMAIN to, to[i] = to[j]
        PROVE  i = j
    <3>1. from(i) = from(j) /\ i \in Int /\ j \in Int /\ n \in Int
      BY <2>1, <1>1, <1>2, <1>3
    <3> QED
      BY <3>1
  <2>2. ASSUME NEW i \in DOMAIN to
        PROVE  \E m \in DOMAIN lines : i <= m /\ lines[m] = to[i]
    BY <1>3
  <2> QED
    BY <2>1, <2>2 DEF MovesUp
<1>6. lines[n] \in ToSet(lines)
  BY DEF ToSet
<1>7. lines[n] \notin ToSet(to)
  BY <1>3 DEF ToSet
<1>8. ToSet(lines) \subseteq ToSet(to) \cup {lines[n]}
  <2> SUFFICES ASSUME NEW m \in DOMAIN lines, m # n
               PROVE  \E i \in DOMAIN to : to[i] = lines[m]
    BY DEF ToSet
  <2>1. CASE m < n
    BY <2>1, <1>1, <1>2, <1>3
  <2>2. CASE m > n
    <3>1. m - 1 \in DOMAIN to /\ from(m - 1) = m
      BY <2>2, <1>1, <1>2
    <3> QED
      BY <3>1, <1>3
  <2> QED
    BY <2>1, <2>2, <1>1
<1> QED
  BY <1>4, <1>5, <1>6, <1>7, <1>8


-----------------------------------------------------------------------------
(* The steps. *)

LEMMA FileRewritten ==
  ASSUME LogInvariant, NEW how \in {"deleted", "trimmed"}, lock # Nobody, Rewrite(how),
         withId => long' = long
  PROVE  LogInvariant'
<1> USE DEF LogInvariant
<1> DEFINE F == edit.file
<1>1. /\ F \in DOMAIN file /\ F \in File /\ edit.to \in Seq(1 .. logged)
      /\ MovesUp(edit.to, file[F])
      /\ edit.drops \subseteq ToSet(file[F]) /\ edit.drops \cap ToSet(edit.to) = {}
      /\ ToSet(file[F]) \subseteq ToSet(edit.to) \cup edit.drops \cup gone.raced
  BY DEF EditFits, LogTypes
<1>2. /\ lock' = Nobody /\ edit' = NoEdit
      /\ WriteFile(F, edit.to) /\ Lose(how, edit.drops)
      /\ UNCHANGED <<strategy, withId, today, logged, counted, offset>>
  BY DEF Rewrite
<1>3. /\ DOMAIN file' = DOMAIN file /\ file'[F] = edit.to
      /\ \A g \in DOMAIN file \ {F} : file'[g] = file[g]
      /\ file' \in [DOMAIN file' -> Seq(1 .. logged')]
  <2>1. logged \in Nat /\ logged' = logged /\ edit.to \in Seq(Nat)
    BY <1>1, <1>2, SeqMonotone DEF LogTypes
  <2> QED
    <3>1. LogTypes /\ F \in File /\ edit.to \in Seq(Nat) /\ WriteFile(F, edit.to)
      BY <1>1, <1>2, <2>1
    <3>2. edit.to \in Seq(1 .. logged') /\ logged' \in Nat /\ logged <= logged'
      BY <1>1, <2>1
    <3>3. DOMAIN file \cup {F} = DOMAIN file
      BY <1>1
    <3> QED
      BY <3>1, <3>2, <3>3, FileWritten
<1>4. /\ edit.drops \subseteq 1 .. logged
      /\ gone' = [gone EXCEPT ![how] = @ \cup edit.drops]
  <2>1. ToSet(file[F]) \subseteq 1 .. logged
    BY <1>1, LinesLogged
  <2> QED
    BY <1>1, <1>2, <2>1 DEF Lose
<1>5. LogTypes'
  BY <1>2, <1>3, <1>4 DEF LogTypes
<1>6. \A f \in DOMAIN file : \A n \in DOMAIN file'[f] :
        \E m \in DOMAIN file[f] : n <= m /\ file[f][m] = file'[f][n]
  <2> TAKE f \in DOMAIN file
  <2> TAKE n \in DOMAIN file'[f]
  <2>1. CASE f = F
    BY <2>1, <1>1, <1>3 DEF MovesUp
  <2>2. CASE f # F
    <3>1. file'[f] = file[f] /\ n \in DOMAIN file[f] /\ n <= n
      BY <2>2, <1>3 DEF LogTypes
    <3> QED
      BY <3>1
  <2> QED
    BY <2>1, <2>2
<1>7. OncePlaced'
  <2> SUFFICES ASSUME NEW f \in DOMAIN file, NEW g \in DOMAIN file,
                      NEW n \in DOMAIN file'[f], NEW m \in DOMAIN file'[g],
                      file'[f][n] = file'[g][m]
               PROVE  f = g /\ n = m
    BY <1>3 DEF OncePlaced
  <2>1. f = g
    BY <1>6 DEF OncePlaced
  <2>2. CASE f = F
    BY <2>1, <2>2, <1>1, <1>3 DEF MovesUp
  <2>3. CASE f # F
    BY <2>1, <2>3, <1>3 DEF OncePlaced
  <2> QED
    BY <2>1, <2>2, <2>3
<1>8. EditFits'
  BY <1>2 DEF EditFits
<1>9. \A e : Present(e)' => Present(e) /\ e \notin edit.drops
  <2> SUFFICES ASSUME NEW f \in DOMAIN file, NEW n \in DOMAIN file'[f]
               PROVE  Present(file'[f][n]) /\ file'[f][n] \notin edit.drops
    BY <1>3 DEF Present
  <2>1. Present(file'[f][n])
    BY <1>6 DEF Present
  <2>2. CASE f = F
    BY <2>1, <2>2, <1>1, <1>3 DEF ToSet
  <2>3. CASE f # F
    BY <2>1, <2>3, <1>1, <1>3 DEF OncePlaced, ToSet
  <2> QED
    BY <2>1, <2>2, <2>3
<1>10. \A e : Present(e) => Present(e)' \/ e \in edit.drops \/ e \in gone.raced
  <2> SUFFICES ASSUME NEW f \in DOMAIN file, NEW n \in DOMAIN file[f]
               PROVE  \/ \E g \in DOMAIN file' : \E m \in DOMAIN file'[g] : file'[g][m] = file[f][n]
                      \/ file[f][n] \in edit.drops \/ file[f][n] \in gone.raced
    BY DEF Present
  <2>1. CASE f = F
    <3>1. file[f][n] \in ToSet(file[F])
      BY <2>1 DEF ToSet
    <3>2. ASSUME file[f][n] \in ToSet(edit.to)
          PROVE  \E g \in DOMAIN file' : \E m \in DOMAIN file'[g] : file'[g][m] = file[f][n]
      <4>1. PICK i \in DOMAIN edit.to : edit.to[i] = file[f][n]
        BY <3>2 DEF ToSet
      <4> QED
        BY <4>1, <2>1, <1>3
    <3> QED
      BY <3>1, <3>2, <1>1
  <2>2. CASE f # F
    BY <2>2, <1>3
  <2> QED
    BY <2>1, <2>2
<1>11. \A e : Removed(e)' <=> Removed(e) \/ e \in edit.drops
  BY <1>4 DEF Removed, LogTypes
<1>12. gone'.raced = gone.raced /\ logged' = logged
  BY <1>2, <1>4 DEF LogTypes
<1>13. EntriesKept'
  BY <1>9, <1>10, <1>11, <1>12 DEF EntriesKept
<1>14. CountsFit'
  <2> SUFFICES ASSUME strategy = "day", withId,
                      NEW f \in DOMAIN file, NEW n \in DOMAIN file'[f], n > offset[f]
               PROVE  counted[file'[f][n]] = 0
    BY <1>2, <1>3 DEF CountsFit, CountedOnce
  <2>1. PICK m \in DOMAIN file[f] : n <= m /\ file[f][m] = file'[f][n]
    BY <1>6
  <2>2. f \in File /\ offset[f] \in Nat /\ m \in Nat /\ n \in Nat
    BY <1>3, LinesLogged DEF LogTypes
  <2>3. m > offset[f]
    BY <2>1, <2>2
  <2> QED
    BY <2>1, <2>3 DEF CountsFit
<1> QED
  BY <1>5, <1>7, <1>8, <1>13, <1>14


LEMMA LineLogged ==
  ASSUME LogInvariant, NEW w \in Writer, Log(w)
  PROVE  LogInvariant'
<1> USE DEF LogInvariant
<1> DEFINE e == logged + 1
           lines == IF Today \in DOMAIN file THEN file[Today] ELSE <<>>
<1>1. /\ logged' = e /\ e \in Entry /\ WriteFile(Today, Append(lines, e))
      /\ IF edit.file = Today THEN Lose("raced", {e}) ELSE UNCHANGED gone
      /\ UNCHANGED <<strategy, withId, long, today, lock, edit, counted, offset>>
  BY DEF Log
<1>2. logged \in Nat /\ Today \in File /\ e \in 1 .. e /\ 1 .. logged \subseteq 1 .. e
  BY LogAssumption DEF LogAssumption, LogTypes, Today, File
<1>3. /\ lines \in Seq(1 .. e) /\ Append(lines, e) \in Seq(1 .. e)
      /\ DOMAIN lines = 1 .. Len(lines) /\ Len(lines) \in Nat
      /\ DOMAIN Append(lines, e) = 1 .. Len(lines) + 1
      /\ \A n \in DOMAIN lines : Append(lines, e)[n] = lines[n]
      /\ Append(lines, e)[Len(lines) + 1] = e
  <2>1. lines \in Seq(1 .. e)
    <3>1. lines \in Seq(1 .. logged)
      BY EmptySeq, LinesLogged
    <3> HIDE DEF lines
    <3> QED
      BY <3>1, <1>2, SeqMonotone
  <2> HIDE DEF lines, e
  <2>2. Append(lines, e) \in Seq(1 .. e) /\ Len(Append(lines, e)) = Len(lines) + 1
    BY <2>1, <1>2, AppendProperties
  <2> QED
    BY <2>1, <2>2, <1>2, AppendProperties
<1>4. /\ DOMAIN file' = DOMAIN file \cup {Today} /\ DOMAIN file' \subseteq File
      /\ file'[Today] = Append(lines, e)
      /\ \A g \in DOMAIN file \ {Today} : file'[g] = file[g]
      /\ file' \in [DOMAIN file' -> Seq(1 .. logged')]
  <2>1. Append(lines, e) \in Seq(Nat)
    <3>1. 1 .. e \subseteq Nat
      BY <1>2
    <3> HIDE DEF lines, e
    <3> QED
      BY <3>1, <1>3, SeqMonotone
  <2>2. Append(lines, e) \in Seq(1 .. logged') /\ logged' \in Nat /\ logged <= logged'
    BY <1>1, <1>2, <1>3
  <2> HIDE DEF lines
  <2> QED
    BY <1>1, <1>2, <2>1, <2>2, FileWritten
<1>5. /\ gone' \in [{"deleted", "trimmed", "expired", "raced"} -> SUBSET (1 .. logged')]
      /\ gone'.raced = gone.raced \cup (IF edit.file = Today THEN {e} ELSE {})
      /\ \A d : Removed(d)' <=> Removed(d)
  <2>1. gone \in [{"deleted", "trimmed", "expired", "raced"} -> SUBSET (1 .. e)]
    BY <1>2 DEF LogTypes
  <2>2. CASE edit.file = Today
    <3>1. gone' = [gone EXCEPT !["raced"] = @ \cup {e}] /\ e \in 1 .. e
      BY <2>2, <1>1, <1>2 DEF Lose
    <3> HIDE DEF e
    <3> QED
      BY <3>1, <2>1, <2>2, <1>1 DEF Removed
  <2>3. CASE edit.file # Today
    BY <2>1, <2>3, <1>1 DEF Removed
  <2> QED
    BY <2>2, <2>3
<1>6. LogTypes'
  <2>1. today' \in Day /\ logged' \in 0 .. MaxLogged
    BY <1>1, <1>2 DEF LogTypes, Entry
  <2>2. counted' \in [Entry -> Nat] /\ offset' \in [File -> Nat]
    BY <1>1 DEF LogTypes
  <2> QED
    BY <2>1, <2>2, <1>4, <1>5 DEF LogTypes
\* A new line is the new entry at the end of today's file, or was there.
<1>7. ASSUME NEW f \in DOMAIN file', NEW n \in DOMAIN file'[f]
      PROVE  \/ f = Today /\ n = Len(lines) + 1 /\ file'[f][n] = e
             \/ f \in DOMAIN file /\ n \in DOMAIN file[f] /\ file'[f][n] = file[f][n]
                /\ file[f][n] # e /\ file[f][n] \in 1 .. logged
  <2>1. ASSUME f \in DOMAIN file, n \in DOMAIN file[f]
        PROVE  file[f][n] # e /\ file[f][n] \in 1 .. logged
    BY <2>1, <1>2, LinesLogged
  <2>2. CASE f = Today
    <3>1. n \in 1 .. Len(lines) + 1 /\ f \in DOMAIN file' /\ file'[f] = Append(lines, e)
      BY <2>2, <1>3, <1>4
    <3>2. CASE n = Len(lines) + 1
      BY <2>2, <3>1, <3>2, <1>3
    <3>3. CASE n # Len(lines) + 1
      <4>1. n \in DOMAIN lines /\ file'[f][n] = lines[n]
        BY <3>1, <3>3, <1>3
      <4>2. f \in DOMAIN file /\ lines = file[f]
        BY <4>1, <2>2
      <4> QED
        BY <4>1, <4>2, <2>1
    <3> QED
      BY <3>2, <3>3
  <2>3. CASE f # Today
    BY <2>1, <2>3, <1>4
  <2> QED
    BY <2>2, <2>3
<1>8. /\ \A f \in DOMAIN file : f \in DOMAIN file'
           /\ \A n \in DOMAIN file[f] : n \in DOMAIN file'[f] /\ file'[f][n] = file[f][n]
      /\ Len(lines) + 1 \in DOMAIN file'[Today] /\ file'[Today][Len(lines) + 1] = e
  <2>1. ASSUME NEW f \in DOMAIN file, NEW n \in DOMAIN file[f]
        PROVE  n \in DOMAIN file'[f] /\ file'[f][n] = file[f][n]
    <3>1. CASE f = Today
      <4>1. lines = file[f]
        BY <3>1
      <4> HIDE DEF lines
      <4> QED
        BY <3>1, <4>1, <1>3, <1>4
    <3>2. CASE f # Today
      BY <3>2, <1>4
    <3> QED
      BY <3>1, <3>2
  <2> HIDE DEF lines
  <2> QED
    BY <2>1, <1>3, <1>4
<1> HIDE DEF lines
<1>9. OncePlaced'
  BY <1>7 DEF OncePlaced
<1>10. \A d : Present(d)' <=> Present(d) \/ d = e
  BY <1>4, <1>7, <1>8 DEF Present
<1>11. EntriesKept'
  <2> SUFFICES ASSUME NEW d \in 1 .. e
               PROVE  /\ Present(d)' \/ Removed(d)' \/ d \in gone'.raced
                      /\ ~(Present(d)' /\ Removed(d)')
    BY <1>1 DEF EntriesKept
  <2>1. CASE d = e
    BY <2>1, <1>2, <1>5, <1>10 DEF Removed, LogTypes
  <2>2. CASE d # e
    <3>1. d \in 1 .. logged
      BY <2>2, <1>2
    <3> QED
      BY <2>2, <3>1, <1>5, <1>10 DEF EntriesKept
  <2> QED
    BY <2>1, <2>2
<1>12. EditFits'
  <2>1. CASE lock = Nobody
    BY <2>1, <1>1 DEF EditFits
  <2>2. CASE lock # Nobody
    <3> DEFINE F == edit.file
    <3>1. /\ F \in DOMAIN file /\ edit.to \in Seq(1 .. logged)
          /\ MovesUp(edit.to, file[F])
          /\ edit.drops \subseteq ToSet(file[F]) /\ edit.drops \cap ToSet(edit.to) = {}
          /\ ToSet(file[F]) \subseteq ToSet(edit.to) \cup edit.drops \cup gone.raced
      BY <2>2 DEF EditFits
    <3>2. edit.to \in Seq(1 .. logged')
      BY <3>1, <1>1, <1>2, SeqMonotone
    <3>3. MovesUp(edit.to, file'[F])
      BY <3>1, <1>8 DEF MovesUp
    <3>4. ToSet(file[F]) \subseteq ToSet(file'[F])
      BY <3>1, <1>8 DEF ToSet
    <3>5. ToSet(file'[F]) \subseteq ToSet(file[F]) \cup (IF edit.file = Today THEN {e} ELSE {})
      BY <3>1, <1>7, <1>8 DEF ToSet
    <3> QED
      BY <2>2, <3>1, <3>2, <3>3, <3>4, <3>5, <1>1, <1>5, <1>8 DEF EditFits
  <2> QED
    BY <2>1, <2>2
<1>13. CountsFit'
  <2> SUFFICES ASSUME strategy = "day", withId
               PROVE  /\ CountedOnce' /\ \A d \in Entry : d > logged' => counted'[d] = 0
                      /\ \A f \in DOMAIN file' : \A n \in DOMAIN file'[f] :
                           n > offset[f] => counted[file'[f][n]] = 0
    BY <1>1 DEF CountsFit
  <2>1. CountedOnce /\ (\A d \in Entry : d > logged => counted[d] = 0)
    BY DEF CountsFit
  <2>2. CountedOnce' /\ (\A d \in Entry : d > logged' => counted'[d] = 0) /\ counted[e] = 0
    BY <2>1, <1>1, <1>2 DEF CountedOnce, Entry
  <2> QED
    BY <2>2, <1>7 DEF CountsFit
<1> QED
  BY <1>6, <1>9, <1>11, <1>12, <1>13


(* The edit of a file that has just been read. *)
LEMMA EditBegun ==
  ASSUME LogInvariant, NEW f \in DOMAIN file, NEW h, h # Nobody, NEW to \in Seq(1 .. logged), NEW drops,
         MovesUp(to, file[f]), drops \subseteq ToSet(file[f]), drops \cap ToSet(to) = {},
         ToSet(file[f]) \subseteq ToSet(to) \cup drops,
         lock' = h, edit' = [file |-> f, to |-> to, drops |-> drops],
         f \in DOMAIN file', file'[f] = file[f], logged' = logged, gone'.raced = gone.raced
  PROVE  EditFits'
BY DEF EditFits

LEMMA NoRepeats ==
  ASSUME OncePlaced, NEW f \in DOMAIN file
  PROVE  \A n, m \in DOMAIN file[f] : file[f][n] = file[f][m] => n = m
BY DEF OncePlaced

LEMMA FilesCleaned ==
  ASSUME LogInvariant, NEW w \in Writer, Cleanup(w)
  PROVE  LogInvariant'
<1> USE DEF LogInvariant
<1> DEFINE old == {f \in DOMAIN file : Expired(f[1])}
<1>1. /\ lock = Nobody /\ UnlinkFiles(old) /\ Lose("expired", UNION {ToSet(file[f]) : f \in old})
      /\ UNCHANGED <<strategy, withId, long, today, logged, born, counted, offset>>
      /\ \/ /\ Today \in DOMAIN file /\ Len(file[Today]) > MaxLines
            /\ lock' = w
            /\ edit' = [file |-> Today, to |-> Kept(file[Today]),
                        drops |-> ToSet(SubSeq(file[Today], 1, Len(file[Today]) - KeepLines))]
         \/ UNCHANGED <<lock, edit>>
  BY DEF Cleanup
<1>2. /\ DOMAIN file' = DOMAIN file \ old
      /\ \A f \in DOMAIN file' : file'[f] = file[f]
      /\ file' \in [DOMAIN file' -> Seq(1 .. logged')]
  BY <1>1 DEF UnlinkFiles, Restrict, LogTypes
<1> DEFINE expired == UNION {ToSet(file[f]) : f \in old}
<1>3. /\ expired \subseteq 1 .. logged
      /\ gone' = [gone EXCEPT !["expired"] = @ \cup expired]
  BY <1>1, LinesLogged DEF Lose
<1>4. \A e : e \in expired <=> \E f \in old : \E n \in DOMAIN file[f] : file[f][n] = e
  BY DEF ToSet
<1> HIDE DEF expired
<1>5. LogTypes'
  <2>1. gone' \in [{"deleted", "trimmed", "expired", "raced"} -> SUBSET (1 .. logged)]
    BY <1>3 DEF LogTypes
  <2> QED
    BY <1>1, <1>2, <2>1 DEF LogTypes
<1>6. OncePlaced'
  BY <1>2 DEF OncePlaced
<1>7. \A e : Present(e)' <=> Present(e) /\ e \notin expired
  <2> SUFFICES ASSUME NEW e
               PROVE  Present(e)' <=> Present(e) /\ e \notin expired
    OBVIOUS
  <2>1. ASSUME Present(e)'
        PROVE  Present(e) /\ e \notin expired
    <3>1. PICK f \in DOMAIN file' : \E n \in DOMAIN file'[f] : file'[f][n] = e
      BY <2>1 DEF Present
    <3>2. PICK n \in DOMAIN file[f] : f \in DOMAIN file \ old /\ file[f][n] = e
      BY <3>1, <1>2
    <3> QED
      BY <3>2, <1>4 DEF Present, OncePlaced
  <2>2. ASSUME Present(e), e \notin expired
        PROVE  Present(e)'
    BY <2>2, <1>2, <1>4 DEF Present
  <2> QED
    BY <2>1, <2>2
<1>8. \A e : Removed(e)' <=> Removed(e) \/ e \in expired
  BY <1>3 DEF Removed, LogTypes
<1>9. gone'.raced = gone.raced /\ logged' = logged
  BY <1>1, <1>3 DEF LogTypes
<1>10. EntriesKept'
  BY <1>7, <1>8, <1>9 DEF EntriesKept
<1>11. EditFits'
  <2>1. CASE UNCHANGED <<lock, edit>>
    BY <2>1, <1>1 DEF EditFits
  <2>2. CASE /\ Today \in DOMAIN file /\ Len(file[Today]) > MaxLines
             /\ lock' = w
             /\ edit' = [file |-> Today, to |-> Kept(file[Today]),
                         drops |-> ToSet(SubSeq(file[Today], 1, Len(file[Today]) - KeepLines))]
    <3>1. Today \notin old
      BY LogAssumption DEF LogAssumption, Expired, Today, LogTypes, Day
    <3>2. /\ file[Today] \in Seq(1 .. logged) /\ logged \in Nat
          /\ Len(file[Today]) > KeepLines
      <4>1. Len(file[Today]) \in Nat /\ KeepLines \in Nat /\ MaxLines \in Nat /\ KeepLines <= MaxLines
        BY <2>2, LinesLogged, LogAssumption DEF LogAssumption
      <4> QED
        BY <2>2, <4>1, LinesLogged
    <3>3. w # Nobody
      BY LogAssumption DEF LogAssumption
    <3>4. \A n, m \in DOMAIN file[Today] : file[Today][n] = file[Today][m] => n = m
      BY <2>2, NoRepeats
    <3> DEFINE drops == ToSet(SubSeq(file[Today], 1, Len(file[Today]) - KeepLines))
    <3>5. /\ Kept(file[Today]) \in Seq(1 .. logged) /\ MovesUp(Kept(file[Today]), file[Today])
          /\ drops \subseteq ToSet(file[Today]) /\ drops \cap ToSet(Kept(file[Today])) = {}
          /\ ToSet(file[Today]) \subseteq ToSet(Kept(file[Today])) \cup drops
      BY <3>2, <3>4, SuffixMovesUp
    <3>6. Today \in DOMAIN file' /\ file'[Today] = file[Today]
      BY <2>2, <3>1, <1>2
    <3>7. edit' = [file |-> Today, to |-> Kept(file[Today]), drops |-> drops]
      BY <2>2
    <3> HIDE DEF drops
    <3> QED
      BY <2>2, <3>3, <3>5, <3>6, <3>7, <1>9, EditBegun
  <2> QED
    BY <2>1, <2>2, <1>1
<1>12. CountsFit'
  BY <1>1, <1>2 DEF CountsFit, CountedOnce
<1> QED
  BY <1>5, <1>6, <1>10, <1>11, <1>12

LEMMA LeastFree ==
  ASSUME NEW N \in Nat, NEW B \in SUBSET (1 .. N), B # {}
  PROVE  \E n \in B : \A m \in B : n <= m
<1> DEFINE R == {ss \in Nat \X Nat : ss[1] < ss[2]}
<1>1. IsWellFoundedOn(R, Nat) /\ B \subseteq Nat
  BY NatLessThanWellFounded DEF OpToRel
<1>2. PICK y \in B : \A z \in B : ~ (<<z, y>> \in R)
  <2> HIDE DEF R
  <2> QED
    BY <1>1, WFMin
<1>3. ASSUME NEW z \in B PROVE y <= z
  <2>1. <<z, y>> \in Nat \X Nat /\ ~ (z < y)
    BY <1>1, <1>2
  <2> QED
    BY <2>1
<1> QED
  BY <1>3

LEMMA FileRolled ==
  ASSUME LogInvariant, strategy # "day", NEW w \in Writer, Roll(w)
  PROVE  LogInvariant'
<1> USE DEF LogInvariant
<1> DEFINE free == {n \in 1 .. MaxRolls : <<today, n>> \notin DOMAIN file}
<1>1. /\ lock = Nobody
      /\ UNCHANGED <<strategy, withId, long, today, logged, born, lock, edit, counted, offset, gone>>
  BY DEF Roll
<1>2. EditFits'
  BY <1>1 DEF EditFits
<1>3. CASE UNCHANGED file
  BY <1>1, <1>2, <1>3 DEF LogTypes, OncePlaced, EntriesKept, Present, Removed, CountsFit, CountedOnce
<1>4. CASE ~UNCHANGED file
  <2>1. Today \in DOMAIN file /\ free # {}
    BY <1>4 DEF Roll
  <2> DEFINE to == <<today, CHOOSE i \in free : \A j \in free : i <= j>>
  <2>2. file' = [f \in (DOMAIN file \ {Today}) \cup {to} |-> IF f = to THEN file[Today] ELSE file[f]]
    BY <2>1 DEF Roll
  <2>3. to \in File /\ to \notin DOMAIN file
    <3>1. \E n \in free : \A m \in free : n <= m
      <4>1. free # {}
        BY <2>1
      <4> QED
        BY <4>1, LogAssumption, LeastFree DEF LogAssumption
    <3>2. (CHOOSE i \in free : \A j \in free : i <= j) \in free
      BY <3>1
    <3> DEFINE k == CHOOSE i \in free : \A j \in free : i <= j
    <3>3. k \in 1 .. MaxRolls /\ <<today, k>> \notin DOMAIN file
      BY <3>2
    <3> HIDE DEF k
    <3>4. k \in 0 .. MaxRolls /\ today \in Day
      BY <3>3, LogAssumption DEF LogAssumption, LogTypes
    <3>5. to = <<today, k>>
      BY DEF k
    <3> HIDE DEF to
    <3> QED
      BY <3>3, <3>4, <3>5 DEF File
  <2> HIDE DEF to
  \* Where a file is afterwards and where it was before.
  <2> DEFINE was(f) == IF f = to THEN Today ELSE f
  <2>4. /\ DOMAIN file' = (DOMAIN file \ {Today}) \cup {to}
        /\ \A f \in DOMAIN file' : was(f) \in DOMAIN file /\ file'[f] = file[was(f)]
        /\ \A f, g \in DOMAIN file' : was(f) = was(g) => f = g
        /\ \A f \in DOMAIN file : \E g \in DOMAIN file' : was(g) = f
    BY <2>1, <2>2, <2>3
  <2> HIDE DEF was
  <2>5. LogTypes'
    <3>1. DOMAIN file' \subseteq File
      BY <2>3, <2>4 DEF LogTypes
    <3>2. file' = [f \in DOMAIN file' |-> file'[f]]
      BY <2>2
    <3>3. \A f \in DOMAIN file' : file'[f] \in Seq(1 .. logged)
      BY <2>4 DEF LogTypes
    <3>4. file' \in [DOMAIN file' -> Seq(1 .. logged')]
      BY <3>2, <3>3, <1>1
    <3> QED
      BY <3>1, <3>4, <1>1 DEF LogTypes
  <2>6. OncePlaced'
    BY <2>4 DEF OncePlaced
  <2>7. \A e : Present(e)' <=> Present(e)
    BY <2>4 DEF Present
  <2>8. EntriesKept'
    BY <2>7, <1>1 DEF EntriesKept, Removed
  <2>9. CountsFit'
    BY <2>1, <1>1 DEF CountsFit
  <2> QED
    BY <1>2, <2>5, <2>6, <2>8, <2>9
<1> QED
  BY <1>3, <1>4

LEMMA EntryDeleted ==
  ASSUME LogInvariant, NEW f \in DOMAIN file, NEW n \in DOMAIN file[f], Delete(f, n)
  PROVE  LogInvariant'
<1> USE DEF LogInvariant
<1>1. /\ lock = Nobody /\ lock' = Admin
      /\ edit' = [file |-> f, to |-> Without(file[f], n), drops |-> {file[f][n]}]
      /\ UNCHANGED <<strategy, withId, long, today, file, logged, born, at, counted, offset, gone>>
  BY DEF Delete
<1>2. EditFits'
  <2>1. file[f] \in Seq(1 .. logged) /\ logged \in Nat /\ Admin # Nobody
    BY LinesLogged DEF Admin, Nobody
  <2>2. \A i, j \in DOMAIN file[f] : file[f][i] = file[f][j] => i = j
    BY NoRepeats
  <2> DEFINE to == Without(file[f], n)
             drops == {file[f][n]}
  <2>3. /\ to \in Seq(1 .. logged) /\ MovesUp(to, file[f])
        /\ drops \subseteq ToSet(file[f]) /\ drops \cap ToSet(to) = {}
        /\ ToSet(file[f]) \subseteq ToSet(to) \cup drops
    BY <2>1, <2>2, OneLineLess
  <2> HIDE DEF to, drops
  <2>4. edit' = [file |-> f, to |-> to, drops |-> drops]
    BY <1>1 DEF to, drops
  <2> QED
    BY <1>1, <2>1, <2>3, <2>4, EditBegun
<1> QED
  BY <1>1, <1>2, SMTT(30) DEF LogTypes, OncePlaced, EntriesKept, Present, Removed, CountsFit, CountedOnce

-----------------------------------------------------------------------------
(* The counters. *)

LEMMA WidthsAdd ==
  ASSUME NEW lines, NEW n \in Nat
  PROVE  Width(lines, n) \in Nat /\ (long = {} => Width(lines, n) = n)
<1> DEFINE wide == {i \in 1 .. n : lines[i] \in long}
<1>1. IsFiniteSet(wide)
  <2>1. IsFiniteSet(1 .. n)
    BY FS_Interval
  <2> QED
    BY <2>1, FS_Subset
<1>2. Cardinality(wide) \in Nat
  BY <1>1, FS_CardinalityType
<1>3. long = {} => Cardinality(wide) = 0
  <2>1. long = {} => wide = {}
    OBVIOUS
  <2> QED
    BY <2>1, FS_EmptySet
<1>4. Width(lines, n) = n + Cardinality(wide)
  BY DEF Width
<1> HIDE DEF wide
<1> QED
  BY <1>2, <1>3, <1>4

LEMMA OldLines ==
  ASSUME LogTypes, NEW f \in DOMAIN file, NEW e \in Unread(f)
  PROVE  \E n \in DOMAIN file[f] : file[f][n] = e /\ (long = {} => n > ReadFrom[f])
<1>1. PICK n \in DOMAIN file[f] : file[f][n] = e /\ Width(file[f], n - 1) >= ReadFrom[f]
  BY DEF Unread
<1>2. n - 1 \in Nat /\ n \in Nat /\ ReadFrom[f] \in Nat
  <2>1. n \in Nat /\ n > 0 /\ f \in File
    BY LinesLogged
  <2>2. offset[f] \in Nat
    BY <2>1 DEF LogTypes
  <2> QED
    BY <2>1, <2>2 DEF ReadFrom
<1>3. long = {} => Width(file[f], n - 1) = n - 1
  BY <1>2, WidthsAdd
<1>4. ASSUME long = {} PROVE n > ReadFrom[f]
  <2>1. n - 1 >= ReadFrom[f]
    BY <1>1, <1>3, <1>4
  <2> QED
    BY <2>1, <1>2
<1> QED
  BY <1>1, <1>4

LEMMA FilesIngested ==
  ASSUME LogInvariant, Ingest
  PROVE  LogInvariant'
<1> USE DEF LogInvariant
<1> DEFINE in(e) == {f \in DOMAIN file : e \in Unread(f)}
<1>1. /\ \A e \in Entry : counted'[e] = IF Expired(born[e]) THEN 0 ELSE Rebuilt[e] + Cardinality(in(e))
      /\ counted' = [e \in Entry |-> counted'[e]]
      /\ offset' = [f \in File |-> IF f \in DOMAIN file THEN Size(f) ELSE ReadFrom[f]]
      /\ UNCHANGED <<strategy, withId, long, file, logged, today, lock, edit, gone>>
  BY DEF Ingest
<1>2. /\ \A e \in Entry : Rebuilt[e] \in Nat
      /\ \A f \in File : ReadFrom[f] \in Nat
  BY DEF Rebuilt, ReadFrom, LogTypes
\* An entry is new in one file at most.
<1>3. ASSUME NEW e
      PROVE  \/ in(e) = {} /\ Cardinality(in(e)) = 0
             \/ Cardinality(in(e)) = 1 /\ \E f \in DOMAIN file : e \in Unread(f)
  <2>1. \A f, g \in in(e) : f = g
    BY OldLines DEF OncePlaced
  <2>2. CASE in(e) = {}
    BY <2>2, FS_EmptySet
  <2>3. CASE in(e) # {}
    <3>1. PICK f \in in(e) : TRUE
      BY <2>3
    <3>2. in(e) = {f}
      BY <2>1, <3>1
    <3> QED
      BY <3>1, <3>2, FS_Singleton
  <2> QED
    BY <2>2, <2>3
<1> HIDE DEF in
<1>4. LogTypes'
  <2>1. counted' \in [Entry -> Nat]
    BY <1>1, <1>2, <1>3
  <2>2. \A f \in DOMAIN file : Size(f) \in Nat
    BY LinesLogged, WidthsAdd DEF Size
  <2>3. offset' \in [File -> Nat]
    BY <1>1, <1>2, <2>2
  <2> QED
    BY <1>1, <2>1, <2>3 DEF LogTypes
<1>5. OncePlaced' /\ EditFits' /\ EntriesKept'
  BY <1>1 DEF OncePlaced, EditFits, EntriesKept, Present, Removed
<1>6. CountsFit'
  <2> SUFFICES ASSUME strategy = "day", withId
               PROVE  /\ CountedOnce' /\ \A e \in Entry : e > logged' => counted'[e] = 0
                      /\ \A f \in DOMAIN file : \A n \in DOMAIN file[f] :
                           n > offset'[f] => counted'[file[f][n]] = 0
    BY <1>1 DEF CountsFit
  <2> long = {}
    BY DEF CountsFit
  \* What is read now was not counted before, or nothing was.
  <2>1. ASSUME NEW e \in Entry, NEW f \in DOMAIN file, e \in Unread(f)
        PROVE  Rebuilt[e] = 0 /\ e <= logged
    <3>1. PICK n \in DOMAIN file[f] : n > ReadFrom[f] /\ file[f][n] = e
      BY <2>1, OldLines
    <3>2. e \in 1 .. logged
      BY <3>1, LinesLogged
    <3>3. CASE Stale
      BY <3>2, <3>3 DEF Rebuilt, LogTypes
    <3>4. CASE ~Stale
      BY <3>1, <3>2, <3>4 DEF Rebuilt, ReadFrom, CountsFit, LogTypes
    <3> QED
      BY <3>3, <3>4
  <2>2. \A e \in Entry : Rebuilt[e] <= 1 /\ (e > logged => Rebuilt[e] = 0)
    BY DEF Rebuilt, CountsFit, CountedOnce
  <2>3. \A e \in Entry : counted'[e] <= 1 /\ (e > logged => counted'[e] = 0)
    <3> SUFFICES ASSUME NEW e \in Entry
                 PROVE  counted'[e] <= 1 /\ (e > logged => counted'[e] = 0)
      OBVIOUS
    <3>1. Rebuilt[e] \in Nat /\ e \in Nat /\ logged \in Nat
      BY <1>2 DEF Entry, LogTypes
    <3>2. CASE Cardinality(in(e)) = 0
      BY <3>1, <3>2, <2>2, <1>1
    <3>3. CASE Cardinality(in(e)) = 1 /\ \E f \in DOMAIN file : e \in Unread(f)
      BY <3>1, <3>3, <2>1, <1>1
    <3> QED
      BY <3>2, <3>3, <1>3
  <2>4. \A f \in DOMAIN file : \A n \in DOMAIN file[f] : ~(n > offset'[f])
    <3> SUFFICES ASSUME NEW f \in DOMAIN file, NEW n \in DOMAIN file[f]
                 PROVE  ~(n > offset'[f])
      OBVIOUS
    <3>1. n \in 1 .. Len(file[f]) /\ Len(file[f]) \in Nat
      BY LinesLogged
    <3>2. offset'[f] = Len(file[f])
      <4>1. Size(f) = Len(file[f])
        BY <3>1, WidthsAdd DEF Size
      <4>2. f \in File
        BY DEF LogTypes
      <4> QED
        BY <4>1, <4>2, <1>1
    <3> QED
      BY <3>1, <3>2
  <2> QED
    BY <2>3, <2>4, <1>1 DEF CountedOnce
<1> QED
  BY <1>4, <1>5, <1>6


-----------------------------------------------------------------------------
(* The theorems about the log. *)

LEMMA RollsStay ==
  ASSUME RollsFit, [LogNext]_logVars
  PROVE  RollsFit'
<1> USE DEF RollsFit
<1>1. CASE UNCHANGED <<strategy, at>>
  BY <1>1
<1>2. ASSUME NEW w \in Writer, Log(w)
      PROVE  RollsFit'
  <2>1. strategy' = strategy
    BY <1>2 DEF Log
  <2>2. PICK next \in {"idle", "clean", "roll"} :
          at' = [at EXCEPT ![w] = next] /\ (strategy = "day" => next # "roll")
    BY <1>2 DEF Log
  <2> QED
    BY <2>1, <2>2
<1>3. ASSUME NEW w \in Writer, Cleanup(w) \/ Trim(w) \/ Roll(w)
      PROVE  RollsFit'
  BY <1>3 DEF Cleanup, Trim, Roll, Rewrite
<1>4. ASSUME Deleted \/ Ingest \/ NextDay \/ \E f \in DOMAIN file : \E n \in DOMAIN file[f] : Delete(f, n)
      PROVE  UNCHANGED <<strategy, at>>
  BY <1>4 DEF Deleted, Ingest, NextDay, Delete, Rewrite
<1> QED
  BY <1>1, <1>2, <1>3, <1>4 DEF LogNext, logVars

LEMMA LogStep ==
  ASSUME LogInvariant, RollsFit, [LogNext]_logVars
  PROVE  LogInvariant'
<1>1. CASE UNCHANGED logVars
  BY <1>1 DEF logVars, LogInvariant, LogTypes, OncePlaced, EditFits, EntriesKept, Present, Removed,
              CountsFit, CountedOnce
<1>2. ASSUME NEW w \in Writer, Log(w)
      PROVE  LogInvariant'
  BY <1>2, LineLogged
<1>3. ASSUME NEW w \in Writer, Cleanup(w)
      PROVE  LogInvariant'
  BY <1>3, FilesCleaned
<1>4. ASSUME NEW w \in Writer, Trim(w)
      PROVE  LogInvariant'
  <2>1. lock # Nobody /\ Rewrite("trimmed") /\ long' = long
    BY <1>4, LogAssumption DEF LogAssumption, Trim
  <2> QED
    BY <2>1, FileRewritten
<1>5. ASSUME NEW w \in Writer, Roll(w)
      PROVE  LogInvariant'
  <2>1. strategy # "day"
    BY <1>5 DEF Roll, RollsFit
  <2> QED
    BY <1>5, <2>1, FileRolled
<1>6. CASE \E f \in DOMAIN file : \E n \in DOMAIN file[f] : Delete(f, n)
  BY <1>6, EntryDeleted
<1>7. CASE Deleted
  <2>1. lock # Nobody /\ Rewrite("deleted") /\ (withId => long' = long)
    BY <1>7 DEF Deleted, Admin, Nobody
  <2> QED
    BY <2>1, FileRewritten
<1>8. CASE Ingest
  BY <1>8, FilesIngested
<1>9. CASE NextDay
  <2>1. today' \in Day
    BY <1>9, LogAssumption DEF NextDay, LogInvariant, LogTypes, Day, LogAssumption
  <2> QED
    BY <1>9, <2>1 DEF NextDay, LogInvariant, LogTypes, OncePlaced, EditFits, EntriesKept, Present,
                      Removed, CountsFit, CountedOnce
<1> QED
  BY <1>1, <1>2, <1>3, <1>4, <1>5, <1>6, <1>7, <1>8, <1>9 DEF LogNext

LEMMA LogInvariantHolds ==
  LogSpec => [](LogInvariant /\ RollsFit)
<1>1. LogInit => LogInvariant /\ RollsFit
  BY LogStarts DEF LogInit, RollsFit
<1>2. LogInvariant /\ RollsFit /\ [LogNext]_logVars => (LogInvariant /\ RollsFit)'
  BY LogStep, RollsStay
<1> QED
  BY <1>1, <1>2, PTL DEF LogSpec

(* For any numbers of entries, days, threads and lines: an entry is in a    *)
(* file until it is deleted, trimmed or expires, or was appended to a file  *)
(* that was being rewritten, and what was removed stays removed             *)
(* (services/log_service.py).                                               *)
THEOREM EntriesStayUntilRemoved == LogSpec => []RewritesKeepTheRest
<1>1. LogInvariant => RewritesKeepTheRest
  BY KeptIsPromised DEF LogInvariant
<1> QED
  BY <1>1, LogInvariantHolds, PTL

(* With a file per day, and entries that are logged with an identifier, no *)
(* entry is counted twice, however files are trimmed and rewritten between *)
(* two rounds of the watcher (services/usage_agg.py).  Without identifiers *)
(* it is not so: the model also has the deletions that make a file longer. *)
THEOREM EntriesCountedOnce == LogSpec => []CountedOnce
<1>1. LogInvariant => CountedOnce
  BY DEF LogInvariant, CountsFit, CountedOnce
<1> QED
  BY <1>1, LogInvariantHolds, PTL

-----------------------------------------------------------------------------
(* Text requests (services/protocol/conversation.py and the formats).  What *)
(* is cleaned of a text is a selection of its places, so that a text and   *)
(* the beginning of it can be compared place by place.                     *)

(* A set of numbers has a least one. *)
LEMMA LeastNumber ==
  ASSUME NEW B \in SUBSET Nat, B # {}
  PROVE  \E n \in B : \A m \in B : n <= m
<1> DEFINE R == {ss \in Nat \X Nat : ss[1] < ss[2]}
<1>1. IsWellFoundedOn(R, Nat)
  BY NatLessThanWellFounded DEF OpToRel
<1>2. PICK y \in B : \A z \in B : ~ (<<z, y>> \in R)
  <2> HIDE DEF R
  <2> QED
    BY <1>1, WFMin
<1>3. ASSUME NEW z \in B PROVE y <= z
  <2>1. <<z, y>> \in Nat \X Nat /\ ~ (z < y)
    BY <1>2
  <2> QED
    BY <2>1
<1> QED
  BY <1>3

-----------------------------------------------------------------------------
(* The tokens at some places: the one at place i comes after those at the  *)
(* places before it.                                                       *)
Rank(S, i) == Cardinality({j \in S : j <= i})

LEMMA Ranks ==
  ASSUME NEW m \in Nat, NEW S \in SUBSET (1 .. m)
  PROVE  /\ IsFiniteSet(S)
         /\ Cardinality(S) \in Nat
         /\ \A i \in Int : Rank(S, i) \in 0 .. Cardinality(S)
         /\ Rank(S, 0) = 0
         /\ \A i \in Int : i >= m => Rank(S, i) = Cardinality(S)
         /\ \A i \in Int : Rank(S, i) = IF i \in S THEN Rank(S, i - 1) + 1 ELSE Rank(S, i - 1)
         /\ \A i, j \in Int : i <= j => Rank(S, i) <= Rank(S, j)
<1>1. IsFiniteSet(S) /\ Cardinality(S) \in Nat
  <2>1. IsFiniteSet(1 .. m)
    BY FS_Interval
  <2>2. IsFiniteSet(S)
    BY <2>1, FS_Subset
  <2> QED
    BY <2>2, FS_CardinalityType
<1>2. ASSUME NEW i \in Int
      PROVE  IsFiniteSet({j \in S : j <= i}) /\ Rank(S, i) \in 0 .. Cardinality(S)
  <2>1. {j \in S : j <= i} \in SUBSET S
    OBVIOUS
  <2> QED
    BY <1>1, <2>1, FS_Subset, FS_CardinalityType DEF Rank
<1>3. Rank(S, 0) = 0
  <2>1. \A j \in S : ~(j <= 0)
    OBVIOUS
  <2>2. {j \in S : j <= 0} = {}
    BY <2>1
  <2> QED
    BY <2>2, FS_EmptySet DEF Rank
<1>4. ASSUME NEW i \in Int, i >= m PROVE Rank(S, i) = Cardinality(S)
  <2>1. \A j \in S : j <= i
    BY <1>4
  <2>2. {j \in S : j <= i} = S
    BY <2>1
  <2> QED
    BY <2>2 DEF Rank
<1>5. ASSUME NEW i \in Int
      PROVE  Rank(S, i) = IF i \in S THEN Rank(S, i - 1) + 1 ELSE Rank(S, i - 1)
  <2>1. CASE i \in S
    <3> \A j \in S : j <= i <=> j <= i - 1 \/ j = i
      OBVIOUS
    <3>1. {j \in S : j <= i} = {j \in S : j <= i - 1} \cup {i}
      BY <2>1
    <3>2. i \notin {j \in S : j <= i - 1} /\ i - 1 \in Int
      OBVIOUS
    <3> QED
      BY <2>1, <3>1, <3>2, <1>2, FS_AddElement DEF Rank
  <2>2. CASE i \notin S
    <3> \A j \in S : j <= i <=> j <= i - 1
      BY <2>2
    <3>1. {j \in S : j <= i} = {j \in S : j <= i - 1}
      OBVIOUS
    <3> QED
      BY <2>2, <3>1 DEF Rank
  <2> QED
    BY <2>1, <2>2
<1>6. ASSUME NEW i \in Int, NEW j \in Int, i <= j PROVE Rank(S, i) <= Rank(S, j)
  <2> \A k \in S : k <= i => k <= j
    BY <1>6
  <2>1. {k \in S : k <= i} \in SUBSET {k \in S : k <= j}
    OBVIOUS
  <2> QED
    BY <2>1, <1>2, FS_Subset DEF Rank
<1> QED
  BY <1>1, <1>2, <1>3, <1>4, <1>5, <1>6

(* There is one place for each rank. *)
LEMMA OfRank ==
  ASSUME NEW m \in Nat, NEW S \in SUBSET (1 .. m), NEW n \in 1 .. Cardinality(S)
  PROVE  /\ \E i \in S : Rank(S, i) = n
         /\ \A i, j \in S : Rank(S, i) = n /\ Rank(S, j) = n => i = j
<1> DEFINE B == {i \in Nat : Rank(S, i) >= n}
<1>1. m \in B
  BY Ranks
<1>2. PICK i \in B : \A j \in B : i <= j
  <2>1. B \in SUBSET Nat /\ B # {}
    BY <1>1
  <2> HIDE DEF B
  <2> QED
    BY <2>1, LeastNumber
<1>3. i # 0
  <2>1. Rank(S, 0) = 0
    BY Ranks
  <2>2. Rank(S, i) >= n
    BY <1>2
  <2> QED
    BY <2>1, <2>2
<1>4. i - 1 \in Nat /\ i - 1 \notin B
  <2>1. i \in Nat
    BY <1>2
  <2> HIDE DEF B
  <2> QED
    BY <2>1, <1>2, <1>3
<1>5. Rank(S, i - 1) < n /\ Rank(S, i - 1) \in Nat /\ Rank(S, i) >= n
  BY <1>2, <1>4, Ranks
<1>6. i \in S /\ Rank(S, i) = n
  <2>1. Rank(S, i) = IF i \in S THEN Rank(S, i - 1) + 1 ELSE Rank(S, i - 1)
    BY <1>2, Ranks
  <2> QED
    BY <2>1, <1>5
<1>7. ASSUME NEW k \in S, NEW l \in S, k < l PROVE Rank(S, k) < Rank(S, l)
  <2>1. k \in Int /\ l \in Int /\ l - 1 \in Int /\ k <= l - 1
    BY <1>7
  <2>2. Rank(S, k) <= Rank(S, l - 1) /\ Rank(S, l) = Rank(S, l - 1) + 1
    BY <2>1, Ranks
  <2>3. Rank(S, k) \in Nat /\ Rank(S, l - 1) \in Nat
    BY <2>1, Ranks
  <2> QED
    BY <2>2, <2>3
<1>8. ASSUME NEW k \in S, NEW l \in S, Rank(S, k) = n, Rank(S, l) = n PROVE k = l
  <2>1. k \in Int /\ l \in Int
    OBVIOUS
  <2>2. ~(k < l) /\ ~(l < k)
    BY <1>7, <1>8
  <2> QED
    BY <2>1, <2>2
<1> QED
  BY <1>6, <1>8

LEMMA SelectedIs ==
  ASSUME NEW s \in Seq(STRING), NEW S \in SUBSET DOMAIN s
  PROVE  /\ Selected(s, S) \in Seq(STRING)
         /\ Len(Selected(s, S)) = Cardinality(S)
         /\ Cardinality(S) \in 0 .. Len(s)
         /\ \A i \in S : /\ Rank(S, i) \in 1 .. Cardinality(S)
                         /\ Selected(s, S)[Rank(S, i)] = s[i]
         /\ \A n \in 1 .. Cardinality(S) : \E i \in S : Rank(S, i) = n
<1>1. DOMAIN s = 1 .. Len(s) /\ Len(s) \in Nat /\ \A i \in 1 .. Len(s) : s[i] \in STRING
  BY LenProperties, ElementOfSeq
<1>2. S \in SUBSET (1 .. Len(s))
  BY <1>1
<1>3. Cardinality(S) \in Nat /\ Cardinality(S) <= Len(s)
  <2>1. IsFiniteSet(1 .. Len(s)) /\ Cardinality(1 .. Len(s)) = Len(s)
    BY <1>1, FS_Interval
  <2> QED
    BY <1>2, <2>1, FS_Subset, FS_CardinalityType
<1> DEFINE At(n) == CHOOSE i \in S : Cardinality({j \in S : j <= i}) = n
           f == [n \in 1 .. Cardinality(S) |-> s[At(n)]]
<1>4. Selected(s, S) = f
  BY DEF Selected
<1>5. ASSUME NEW n \in 1 .. Cardinality(S) PROVE At(n) \in S /\ Rank(S, At(n)) = n
  <2>1. \E i \in S : Cardinality({j \in S : j <= i}) = n
    BY <1>1, <1>2, OfRank, ZenonT(60) DEF Rank
  <2> QED
    BY <2>1 DEF Rank
<1>6. \A n \in 1 .. Cardinality(S) : s[At(n)] \in STRING
  BY <1>1, <1>2, <1>5
<1>7. f \in [1 .. Cardinality(S) -> STRING]
  <2> HIDE DEF At
  <2> QED
    BY <1>6
<1>8. f \in Seq(STRING) /\ Len(f) = Cardinality(S)
  <2> HIDE DEF f
  <2> QED
    BY <1>3, <1>7, SeqDef, LenProperties
<1>9. ASSUME NEW i \in S
      PROVE  Rank(S, i) \in 1 .. Cardinality(S) /\ f[Rank(S, i)] = s[i]
  <2>1. i \in Int
    BY <1>2
  <2>2. Rank(S, i) \in 1 .. Cardinality(S)
    <3>1. Rank(S, i) = Rank(S, i - 1) + 1 /\ Rank(S, i) \in 0 .. Cardinality(S)
          /\ Rank(S, i - 1) \in 0 .. Cardinality(S)
      <4>1. i - 1 \in Int
        BY <2>1
      <4> QED
        BY <1>1, <1>2, <2>1, <4>1, Ranks
    <3> QED
      BY <3>1, <1>3
  <2>3. At(Rank(S, i)) \in S /\ Rank(S, At(Rank(S, i))) = Rank(S, i)
    BY <2>2, <1>5
  <2>4. At(Rank(S, i)) = i
    BY <1>1, <1>2, <2>2, <2>3, OfRank
  <2> QED
    BY <2>2, <2>4
<1>10. \A n \in 1 .. Cardinality(S) : \E i \in S : Rank(S, i) = n
  BY <1>5
<1> QED
  <2> HIDE DEF f
  <2> QED
    BY <1>3, <1>4, <1>8, <1>9, <1>10

(* Two texts of which one selects the same places, and perhaps more behind *)
(* them.                                                                   *)
LEMMA SelectsMore ==
  ASSUME NEW s \in Seq(STRING), NEW t \in Seq(STRING), NEW S \in SUBSET DOMAIN s,
         NEW T \in SUBSET DOMAIN t, NEW m \in Nat, S = {i \in T : i <= m},
         \A i \in S : s[i] = t[i]
  PROVE  IsPrefix(Selected(s, S), Selected(t, T))
<1> DEFINE a == Selected(s, S)  b == Selected(t, T)
<1>1. a \in Seq(STRING) /\ b \in Seq(STRING) /\ Len(a) = Cardinality(S) /\ Len(b) = Cardinality(T)
  BY SelectedIs
<1>2. DOMAIN t = 1 .. Len(t) /\ Len(t) \in Nat
  BY LenProperties
<1>3. IsFiniteSet(T) /\ S \in SUBSET T
  <2>1. \A n \in Nat : IsFiniteSet(1 .. n)
    BY FS_Interval, SMTT(30)
  <2>2. T \in SUBSET (1 .. Len(t)) /\ IsFiniteSet(1 .. Len(t))
    BY <1>2, <2>1
  <2> QED
    BY <2>2, FS_Subset
<1>4. Cardinality(S) <= Cardinality(T) /\ Cardinality(S) \in Nat /\ Cardinality(T) \in Nat
  BY <1>3, FS_Subset, FS_CardinalityType
<1>5. ASSUME NEW n \in 1 .. Cardinality(S) PROVE a[n] = b[n]
  <2>1. PICK i \in S : Rank(S, i) = n
    BY SelectedIs
  <2>2. i \in T /\ i <= m /\ i \in Int
    BY <1>2
  <2>3. {j \in S : j <= i} = {j \in T : j <= i}
    <3>1. \A j \in T : j \in Int
      BY <1>2
    <3> QED
      BY <2>2, <3>1
  <2>4. Rank(T, i) = n
    BY <2>1, <2>3 DEF Rank
  <2>5. a[n] = s[i]
    BY <2>1, SelectedIs
  <2>6. b[n] = t[i]
    BY <2>2, <2>4, SelectedIs
  <2> QED
    BY <2>1, <2>5, <2>6
<1>6. \A n \in 1 .. Len(a) : a[n] = b[n]
  BY <1>1, <1>5
<1>7. Len(a) <= Len(b)
  BY <1>1, <1>4
<1> HIDE DEF a, b
<1>8. SubSeq(a, 1, Len(a)) = SubSeq(b, 1, Len(a))
  <2>1. Len(a) \in Nat /\ Len(b) \in Nat /\ 1 .. Len(a) \subseteq 1 .. Len(b)
    <3>1. Len(a) \in Nat /\ Len(b) \in Nat
      BY <1>1, LenProperties
    <3> QED
      BY <3>1, <1>7
  <2>2. \A n \in 1 .. Len(a) : a[n] \in STRING /\ b[n] \in STRING
    BY <1>1, <2>1, ElementOfSeq
  <2>3. SubSeq(a, 1, Len(a)) \in Seq(STRING) /\ Len(SubSeq(a, 1, Len(a))) = Len(a)
        /\ \A n \in 1 .. Len(a) : SubSeq(a, 1, Len(a))[n] = a[n]
    BY <2>1, <2>2, SubSeqProperties
  <2>4. SubSeq(b, 1, Len(a)) \in Seq(STRING) /\ Len(SubSeq(b, 1, Len(a))) = Len(a)
        /\ \A n \in 1 .. Len(a) : SubSeq(b, 1, Len(a))[n] = b[n]
    BY <2>1, <2>2, SubSeqProperties
  <2> QED
    BY <2>3, <2>4, <1>6, SeqEqual
<1> QED
  BY <1>7, <1>8 DEF IsPrefix, a, b

(* All places from p on. *)
LEMMA SelectsRest ==
  ASSUME NEW s \in Seq(STRING), NEW S \in SUBSET DOMAIN s, NEW p \in 1 .. Len(s) + 1,
         p .. Len(s) \subseteq S
  PROVE  /\ Rank(S, p - 1) \in Nat
         /\ Len(Selected(s, S)) = Rank(S, p - 1) + (Len(s) + 1 - p)
         /\ \A i \in p .. Len(s) : Selected(s, S)[Rank(S, p - 1) + (i + 1 - p)] = s[i]
<1>1. DOMAIN s = 1 .. Len(s) /\ Len(s) \in Nat
  BY LenProperties
<1>2. S \in SUBSET (1 .. Len(s))
  BY <1>1
<1> DEFINE c == Rank(S, p - 1)
<1>3. c \in Nat
  <2>1. p - 1 \in Int
    BY <1>1
  <2>2. Cardinality(S) \in Nat
    BY <1>1, <1>2, Ranks
  <2>3. Rank(S, p - 1) \in 0 .. Cardinality(S)
    BY <1>1, <1>2, <2>1, Ranks
  <2> QED
    BY <2>2, <2>3
<1>4. ASSUME NEW i \in p - 1 .. Len(s) PROVE Rank(S, i) = c + (i + 1 - p)
  <2> i \in Int /\ p \in Int /\ p <= i + 1
    BY <1>1
  <2>1. {j \in S : j <= i} = {j \in S : j <= p - 1} \cup (p .. i)
    <3>1. \A j \in S : j <= i <=> j <= p - 1 \/ j \in p .. i
      BY <1>1, <1>2
    <3>2. p .. i \subseteq S
      BY <1>1
    <3> QED
      BY <3>1, <3>2
  <2>2. {j \in S : j <= p - 1} \cap (p .. i) = {}
    <3>1. \A j \in p .. i : ~(j <= p - 1)
      OBVIOUS
    <3> QED
      BY <3>1
  <2>3. IsFiniteSet(p .. i) /\ Cardinality(p .. i) = i + 1 - p
    <3>1. Cardinality(p .. i) = IF p > i THEN 0 ELSE i - p + 1
      BY FS_Interval
    <3>2. IsFiniteSet(p .. i)
      BY FS_Interval
    <3> QED
      BY <3>1, <3>2
  <2>4. IsFiniteSet({j \in S : j <= p - 1})
    <3>1. IsFiniteSet(S)
      BY <1>1, <1>2, Ranks
    <3> QED
      BY <3>1, FS_Subset
  <2>5. Cardinality({j \in S : j <= i}) = c + (i + 1 - p) - Cardinality({})
    BY <2>1, <2>2, <2>3, <2>4, FS_Union, SMTT(30) DEF Rank
  <2>6. Cardinality({}) = 0
    BY FS_EmptySet
  <2>7. Rank(S, i) = c + (i + 1 - p) - 0
    BY <2>5, <2>6 DEF Rank
  <2> HIDE DEF c
  <2> QED
    BY <2>7, <1>3
<1>5. Cardinality(S) = c + (Len(s) + 1 - p)
  <2>1. Rank(S, Len(s)) = Cardinality(S)
    BY <1>1, <1>2, Ranks
  <2> QED
    BY <2>1, <1>1, <1>4
<1>6. ASSUME NEW i \in p .. Len(s) PROVE Selected(s, S)[c + (i + 1 - p)] = s[i]
  <2>1. i \in S /\ Rank(S, i) = c + (i + 1 - p)
    BY <1>4
  <2> QED
    BY <2>1, SelectedIs
<1> QED
  BY <1>3, <1>5, <1>6, SelectedIs

(* The first n places. *)
LEMMA SelectsFirst ==
  ASSUME NEW s \in Seq(STRING), NEW n \in 0 .. Len(s)
  PROVE  Selected(s, 1 .. n) = SubSeq(s, 1, n)
<1>1. DOMAIN s = 1 .. Len(s) /\ Len(s) \in Nat
  BY LenProperties
<1>2. 1 .. n \in SUBSET DOMAIN s
  BY <1>1
<1>3. Cardinality(1 .. n) = n
  BY FS_Interval
<1>4. ASSUME NEW i \in 1 .. n PROVE Rank(1 .. n, i) = i
  <2>1. \A j \in 1 .. n : j <= i <=> j \in 1 .. i
    OBVIOUS
  <2>2. 1 .. i \subseteq 1 .. n
    OBVIOUS
  <2>3. {j \in 1 .. n : j <= i} = 1 .. i
    BY <2>1, <2>2
  <2>4. Cardinality(1 .. i) = IF 1 > i THEN 0 ELSE i - 1 + 1
    BY FS_Interval
  <2>5. Rank(1 .. n, i) = Cardinality(1 .. i)
    BY <2>3 DEF Rank
  <2> QED
    BY <2>4, <2>5
<1>5. Selected(s, 1 .. n) \in Seq(STRING) /\ Len(Selected(s, 1 .. n)) = n
      /\ \A i \in 1 .. n : Selected(s, 1 .. n)[i] = s[i]
  BY <1>2, <1>3, <1>4, SelectedIs
<1>6. SubSeq(s, 1, n) \in Seq(STRING) /\ Len(SubSeq(s, 1, n)) = n
      /\ \A i \in 1 .. n : SubSeq(s, 1, n)[i] = s[i]
  BY <1>1, SubSeqProperties, ElementOfSeq
<1> QED
  BY <1>5, <1>6, SeqEqual

-----------------------------------------------------------------------------
(* Beginnings and ends of texts. *)
LEMMA UptoIs ==
  ASSUME NEW s \in Seq(STRING), NEW n \in 0 .. Len(s)
  PROVE  /\ Upto(s, n) \in Seq(STRING)
         /\ Len(Upto(s, n)) = n
         /\ \A i \in 1 .. n : Upto(s, n)[i] = s[i]
<1>1. Len(s) \in Nat /\ \A i \in 1 .. n : s[i] \in STRING
  BY LenProperties, ElementOfSeq
<1>2. 1 \in Int /\ n \in Int
  BY <1>1
<1>3. /\ SubSeq(s, 1, n) \in Seq(STRING)
      /\ Len(SubSeq(s, 1, n)) = IF 1 <= n THEN n - 1 + 1 ELSE 0
      /\ \A i \in 1 .. n - 1 + 1 : SubSeq(s, 1, n)[i] = s[1 + i - 1]
  BY <1>1, <1>2, SubSeqProperties
<1> QED
  BY <1>1, <1>2, <1>3 DEF Upto

LEMMA AfterIs ==
  ASSUME NEW s \in Seq(STRING), NEW n \in Nat
  PROVE  /\ After(s, n) \in Seq(STRING)
         /\ Len(After(s, n)) = IF n <= Len(s) THEN Len(s) - n ELSE 0
         /\ \A i \in 1 .. Len(s) - n : After(s, n)[i] = s[n + i]
         /\ n >= Len(s) => After(s, n) = <<>>
<1>1. Len(s) \in Nat /\ \A i \in n + 1 .. Len(s) : s[i] \in STRING
  BY LenProperties, ElementOfSeq
<1>2. /\ SubSeq(s, n + 1, Len(s)) \in Seq(STRING)
      /\ Len(SubSeq(s, n + 1, Len(s))) = IF n + 1 <= Len(s) THEN Len(s) - (n + 1) + 1 ELSE 0
      /\ \A i \in 1 .. Len(s) - (n + 1) + 1 : SubSeq(s, n + 1, Len(s))[i] = s[n + 1 + i - 1]
  BY <1>1, SubSeqProperties
<1>3. ASSUME n >= Len(s) PROVE SubSeq(s, n + 1, Len(s)) = <<>>
  BY <1>1, <1>3, SubSeqEmpty
<1> QED
  BY <1>1, <1>2, <1>3 DEF After

LEMMA PrefixIs ==
  ASSUME NEW s \in Seq(STRING), NEW t \in Seq(STRING)
  PROVE  IsPrefix(s, t) <=> Len(s) <= Len(t) /\ \A i \in 1 .. Len(s) : s[i] = t[i]
<1>1. Len(s) \in Nat /\ Len(t) \in Nat
  BY LenProperties
<1>2. Upto(s, Len(s)) \in Seq(STRING) /\ Len(Upto(s, Len(s))) = Len(s)
      /\ \A i \in 1 .. Len(s) : Upto(s, Len(s))[i] = s[i]
  <2>1. Len(s) \in 0 .. Len(s)
    BY <1>1
  <2> QED
    BY <2>1, UptoIs
<1>3. CASE Len(s) <= Len(t)
  <2>1. Len(s) \in 0 .. Len(t)
    BY <1>1, <1>3
  <2>2. Upto(t, Len(s)) \in Seq(STRING) /\ Len(Upto(t, Len(s))) = Len(s)
        /\ \A i \in 1 .. Len(s) : Upto(t, Len(s))[i] = t[i]
    BY <2>1, UptoIs
  <2>3. ASSUME \A i \in 1 .. Len(s) : s[i] = t[i] PROVE Upto(s, Len(s)) = Upto(t, Len(s))
    BY <2>3, <1>2, <2>2, SeqEqual
  <2>4. Upto(s, Len(s)) = Upto(t, Len(s)) => \A i \in 1 .. Len(s) : s[i] = t[i]
    BY <1>2, <2>2
  <2> QED
    BY <1>3, <2>3, <2>4 DEF IsPrefix, Upto
<1>4. CASE ~(Len(s) <= Len(t))
  BY <1>4 DEF IsPrefix
<1> QED
  BY <1>3, <1>4

\* A text is its beginning and the rest.
LEMMA PrefixAndRest ==
  ASSUME NEW s \in Seq(STRING), NEW t \in Seq(STRING), IsPrefix(s, t)
  PROVE  s \o After(t, Len(s)) = t
<1>1. Len(s) \in Nat /\ Len(t) \in Nat /\ Len(s) <= Len(t) /\ \A i \in 1 .. Len(s) : s[i] = t[i]
  BY PrefixIs, LenProperties
<1> DEFINE r == After(t, Len(s))
<1>2. r \in Seq(STRING) /\ Len(r) = Len(t) - Len(s)
      /\ \A i \in 1 .. Len(t) - Len(s) : r[i] = t[Len(s) + i]
  BY <1>1, AfterIs
<1> HIDE DEF r
<1>3. /\ s \o r \in Seq(STRING) /\ Len(s \o r) = Len(s) + Len(r)
      /\ \A i \in 1 .. Len(s) + Len(r) : (s \o r)[i] = IF i <= Len(s) THEN s[i] ELSE r[i - Len(s)]
  BY <1>2, ConcatProperties
<1>4. ASSUME NEW i \in 1 .. Len(t) PROVE (s \o r)[i] = t[i]
  <2>1. CASE i <= Len(s)
    BY <2>1, <1>1, <1>2, <1>3
  <2>2. CASE i > Len(s)
    <3>1. i - Len(s) \in 1 .. Len(t) - Len(s) /\ Len(s) + (i - Len(s)) = i
      BY <2>2, <1>1
    <3> QED
      BY <3>1, <2>2, <1>1, <1>2, <1>3
  <2>3. i <= Len(s) \/ i > Len(s)
    <3>1. i \in Int /\ Len(s) \in Int
      BY LenProperties
    <3> QED
      BY <3>1
  <2> QED
    BY <2>1, <2>2, <2>3
<1>5. Len(s \o r) = Len(t)
  BY <1>1, <1>2, <1>3
<1> QED
  BY <1>3, <1>4, <1>5, SeqEqual DEF r

LEMMA PrefixOfMore ==
  ASSUME NEW s \in Seq(STRING), NEW t \in Seq(STRING)
  PROVE  /\ IsPrefix(s, s \o t)
         /\ After(s \o t, Len(s)) = t
         /\ Upto(s \o t, Len(s)) = s
<1>1. Len(s) \in Nat /\ Len(t) \in Nat
  BY LenProperties
<1>2. /\ s \o t \in Seq(STRING) /\ Len(s \o t) = Len(s) + Len(t)
      /\ \A i \in 1 .. Len(s) + Len(t) : (s \o t)[i] = IF i <= Len(s) THEN s[i] ELSE t[i - Len(s)]
  BY ConcatProperties
<1>3. IsPrefix(s, s \o t)
  <2>1. \A i \in 1 .. Len(s) : (s \o t)[i] = s[i]
    BY <1>1, <1>2
  <2>2. Len(s) <= Len(s \o t)
    BY <1>1, <1>2
  <2> QED
    BY <1>2, <2>1, <2>2, PrefixIs
<1>4. After(s \o t, Len(s)) = t
  <2>1. /\ After(s \o t, Len(s)) \in Seq(STRING) /\ Len(After(s \o t, Len(s))) = Len(t)
        /\ \A i \in 1 .. Len(t) : After(s \o t, Len(s))[i] = (s \o t)[Len(s) + i]
    <3>1. Len(s \o t) - Len(s) = Len(t) /\ Len(s) <= Len(s \o t)
      BY <1>1, <1>2
    <3>2. s \o t \in Seq(STRING) /\ Len(s) \in Nat
      BY <1>1, <1>2
    <3>3. /\ After(s \o t, Len(s)) \in Seq(STRING)
          /\ Len(After(s \o t, Len(s))) = IF Len(s) <= Len(s \o t) THEN Len(s \o t) - Len(s) ELSE 0
          /\ \A i \in 1 .. Len(s \o t) - Len(s) : After(s \o t, Len(s))[i] = (s \o t)[Len(s) + i]
      BY <3>2, AfterIs
    <3> QED
      BY <3>1, <3>3
  <2>2. ASSUME NEW i \in 1 .. Len(t) PROVE (s \o t)[Len(s) + i] = t[i]
    <3>1. Len(s) + i \in 1 .. Len(s) + Len(t) /\ ~(Len(s) + i <= Len(s)) /\ Len(s) + i - Len(s) = i
      BY <1>1
    <3> QED
      BY <1>2, <3>1
  <2> QED
    BY <2>1, <2>2, SeqEqual
<1>5. Upto(s \o t, Len(s)) = s
  <2>1. Len(s) \in 0 .. Len(s \o t)
    BY <1>1, <1>2
  <2>2. /\ Upto(s \o t, Len(s)) \in Seq(STRING) /\ Len(Upto(s \o t, Len(s))) = Len(s)
        /\ \A i \in 1 .. Len(s) : Upto(s \o t, Len(s))[i] = (s \o t)[i]
    BY <1>2, <2>1, UptoIs
  <2>3. \A i \in 1 .. Len(s) : (s \o t)[i] = s[i]
    BY <1>1, <1>2
  <2> QED
    BY <2>2, <2>3, SeqEqual
<1> QED
  BY <1>3, <1>4, <1>5

LEMMA FirstIs ==
  ASSUME NEW s \in Seq(STRING), NEW t, IsIn(t, s)
  PROVE  First(t, s) \in DOMAIN s /\ s[First(t, s)] = t /\ \A j \in 1 .. First(t, s) - 1 : s[j] # t
<1>1. DOMAIN s = 1 .. Len(s) /\ Len(s) \in Nat
  BY LenProperties
<1> DEFINE B == {i \in 1 .. Len(s) : s[i] = t}
<1>2. B \in SUBSET Nat /\ B # {}
  BY <1>1 DEF IsIn, ToSet
<1>3. PICK i \in B : \A j \in B : i <= j
  <2> HIDE DEF B
  <2> QED
    BY <1>2, LeastNumber
<1>4. \A j \in 1 .. i - 1 : s[j] # t
  <2>1. \A j \in 1 .. i - 1 : j \in 1 .. Len(s) /\ ~(i <= j)
    BY <1>1, <1>3
  <2> QED
    BY <1>3, <2>1
<1>5. \E k \in DOMAIN s : s[k] = t /\ \A j \in 1 .. k - 1 : s[j] # t
  BY <1>1, <1>3, <1>4
<1> QED
  BY <1>5 DEF First

-----------------------------------------------------------------------------
(* Cleaning a text: what is added to a text only adds to what is shown of  *)
(* it, as long as no space goes away.                                      *)
KeptPlaces(s) == {i \in DOMAIN s : IsKept(s, i)}

LEMMA SanitizedIs ==
  ASSUME NEW s \in Seq(STRING)
  PROVE  /\ KeptPlaces(s) \in SUBSET DOMAIN s
         /\ Sanitized(s) = Selected(s, KeptPlaces(s))
         /\ Sanitized(s) \in Seq(STRING)
<1>1. KeptPlaces(s) \in SUBSET DOMAIN s
  BY DEF KeptPlaces
<1>2. Sanitized(s) = Selected(s, KeptPlaces(s))
  BY DEF Sanitized, KeptPlaces
<1> QED
  BY <1>1, <1>2, SelectedIs

LEMMA KeptGrows ==
  ASSUME NEW s \in Seq(STRING), NEW t \in Seq(STRING), IsPrefix(s, t),
         \A i \in DOMAIN s : ~Marked(s, i, "(", ")") => (Hugs(s, i) <=> Hugs(t, i))
  PROVE  \E m \in 0 .. Len(s) : KeptPlaces(s) = {i \in KeptPlaces(t) : i <= m}
<1>1. DOMAIN s = 1 .. Len(s) /\ Len(s) \in Nat /\ DOMAIN t = 1 .. Len(t) /\ Len(t) \in Nat
  BY LenProperties
<1>2. Len(s) <= Len(t) /\ \A i \in 1 .. Len(s) : s[i] = t[i]
  BY PrefixIs
<1>3. ASSUME NEW i \in 1 .. Len(s) PROVE Marked(s, i, "(", ")") <=> Marked(t, i, "(", ")")
  <2>1. \A j \in 1 .. i : s[j] = t[j] /\ \A k \in j .. i - 1 : s[k] = t[k]
    BY <1>1, <1>2
  <2> QED
    BY <2>1 DEF Marked
<1>4. ASSUME NEW i \in 1 .. Len(s), Marked(s, i, "(", ")") => IsClosed(s, i, ")")
      PROVE  i \in KeptPlaces(s) <=> i \in KeptPlaces(t)
  <2>1. IsClosed(s, i, ")") => IsClosed(t, i, ")")
    <3>1. \A k \in i .. Len(s) : k \in i .. Len(t) /\ s[k] = t[k]
      BY <1>1, <1>2
    <3> QED
      BY <3>1 DEF IsClosed
  <2>2. i \in DOMAIN s /\ i \in DOMAIN t /\ s[i] = t[i]
    BY <1>1, <1>2
  <2> QED
    BY <2>1, <2>2, <1>3, <1>4 DEF KeptPlaces, IsKept
<1> DEFINE B == {i \in 1 .. Len(s) : Marked(s, i, "(", ")") /\ ~IsClosed(s, i, ")")}
<1>5. CASE B = {}
  <2>1. \A i \in 1 .. Len(s) : i \in KeptPlaces(s) <=> i \in KeptPlaces(t)
    BY <1>5, <1>4
  <2>2. \A i \in KeptPlaces(t) : i <= Len(s) <=> i \in 1 .. Len(s)
    BY <1>1 DEF KeptPlaces
  <2>3. \A i \in KeptPlaces(s) : i \in 1 .. Len(s)
    BY <1>1 DEF KeptPlaces
  <2>4. KeptPlaces(s) = {i \in KeptPlaces(t) : i <= Len(s)}
    BY <2>1, <2>2, <2>3
  <2> QED
    BY <2>4, <1>1
<1>6. CASE B # {}
  <2>1. PICK p \in B : \A q \in B : p <= q
    <3>1. B \in SUBSET Nat
      BY <1>1
    <3> HIDE DEF B
    <3> QED
      BY <3>1, <1>6, LeastNumber
  <2>2. p \in 1 .. Len(s) /\ Marked(s, p, "(", ")") /\ ~IsClosed(s, p, ")")
    BY <2>1
  <2>3. ASSUME NEW i \in p .. Len(s) PROVE i \notin KeptPlaces(s)
    <3>1. PICK j \in 1 .. p : s[j] = "(" /\ \A k \in j .. p - 1 : s[k] # ")"
      BY <2>2 DEF Marked
    <3>2. \A k \in p .. Len(s) : s[k] # ")"
      BY <2>2 DEF IsClosed
    <3>3. Marked(s, i, "(", ")")
      <4>1. j \in 1 .. i /\ \A k \in j .. i - 1 : k \in j .. p - 1 \/ k \in p .. Len(s)
        BY <1>1, <2>2
      <4> QED
        BY <3>1, <3>2, <4>1 DEF Marked
    <3>4. ~IsClosed(s, i, ")")
      <4>1. \A k \in i .. Len(s) : k \in p .. Len(s)
        BY <1>1, <2>2
      <4> QED
        BY <3>2, <4>1 DEF IsClosed
    <3> QED
      BY <3>3, <3>4 DEF KeptPlaces, IsKept
  <2>4. ASSUME NEW i \in 1 .. p - 1 PROVE i \in KeptPlaces(s) <=> i \in KeptPlaces(t)
    <3>1. i \in 1 .. Len(s) /\ ~(p <= i)
      BY <1>1, <2>2
    <3>2. i \notin B
      BY <3>1, <2>1
    <3> QED
      BY <3>1, <3>2, <1>4
  <2>5. p - 1 \in 0 .. Len(s)
    BY <1>1, <2>2
  <2>6. \A i \in KeptPlaces(t) : i <= p - 1 <=> i \in 1 .. p - 1
    BY <1>1, <2>2 DEF KeptPlaces
  <2>7. \A i \in KeptPlaces(s) : i \in 1 .. p - 1
    <3>1. \A i \in KeptPlaces(s) : i \in 1 .. Len(s)
      BY <1>1 DEF KeptPlaces
    <3>2. \A i \in 1 .. Len(s) : i \in 1 .. p - 1 \/ i \in p .. Len(s)
      BY <1>1, <2>2
    <3> QED
      BY <3>1, <3>2, <2>3
  <2>8. KeptPlaces(s) = {i \in KeptPlaces(t) : i <= p - 1}
    BY <2>4, <2>6, <2>7
  <2> QED
    BY <2>5, <2>8
<1> QED
  BY <1>5, <1>6

LEMMA SanitizedGrows ==
  ASSUME NEW s \in Seq(STRING), NEW t \in Seq(STRING), IsPrefix(s, t),
         \A i \in DOMAIN s : ~Marked(s, i, "(", ")") => (Hugs(s, i) <=> Hugs(t, i))
  PROVE  IsPrefix(Sanitized(s), Sanitized(t))
<1>1. PICK m \in 0 .. Len(s) : KeptPlaces(s) = {i \in KeptPlaces(t) : i <= m}
  BY KeptGrows
<1>2. m \in Nat
  BY LenProperties
<1>3. \A i \in KeptPlaces(s) : s[i] = t[i]
  <2>1. \A i \in 1 .. Len(s) : s[i] = t[i]
    BY PrefixIs
  <2>2. \A i \in KeptPlaces(s) : i \in 1 .. Len(s)
    BY LenProperties DEF KeptPlaces
  <2> QED
    BY <2>1, <2>2
<1> QED
  BY <1>1, <1>2, <1>3, SanitizedIs, SelectsMore, ZenonT(60)

\* No space goes away: there are none, or no full stop comes behind an annotation.
NoHugs == " " \notin Tokens \/ "." \notin Tokens

LEMMA NothingHugs ==
  ASSUME NoHugs, NEW s \in Seq(Tokens), NEW i \in DOMAIN s, ~Marked(s, i, "(", ")")
  PROVE  ~Hugs(s, i)
<1>1. DOMAIN s = 1 .. Len(s) /\ Len(s) \in Nat /\ \A n \in 1 .. Len(s) : s[n] \in Tokens
  BY LenProperties, ElementOfSeq
<1>2. s[i] # "("
  <2>1. i \in 1 .. i /\ \A k \in i .. i - 1 : s[k] # ")"
    BY <1>1
  <2> QED
    BY <2>1 DEF Marked
<1> SUFFICES ASSUME Hugs(s, i) PROVE FALSE
  OBVIOUS
<1>3. PICK j \in i .. Len(s) - 1, k \in i .. Len(s) - 1 :
        /\ s[j] = "(" /\ \A n \in i .. j - 1 : s[n] = " "
        /\ s[k + 1] = "."
  BY DEF Hugs
<1>4. i \in i .. j - 1 /\ i \in 1 .. Len(s) /\ k + 1 \in 1 .. Len(s)
  <2>1. i # j
    BY <1>2, <1>3
  <2> QED
    BY <2>1, <1>1
<1> QED
  BY <1>1, <1>3, <1>4 DEF NoHugs

LEMMA TextsAreStrings ==
  Seq(Tokens) \subseteq Seq(STRING)
<1>1. ASSUME NEW s \in Seq(Tokens) PROVE s \in Seq(STRING)
  BY TextAssumption, SeqMonotonic DEF TextAssumption
<1> QED
  BY <1>1

LEMMA ShownGrows ==
  ASSUME NoHugs, NEW s \in Seq(Tokens), NEW t \in Seq(Tokens), IsPrefix(s, t)
  PROVE  IsPrefix(Sanitized(s), Sanitized(t))
<1>1. s \in Seq(STRING) /\ t \in Seq(STRING)
  BY TextsAreStrings
<1>2. ASSUME NEW i \in DOMAIN s, ~Marked(s, i, "(", ")") PROVE ~Hugs(s, i) /\ ~Hugs(t, i)
  <2>1. i \in 1 .. Len(s) /\ Len(s) \in Nat /\ Len(t) \in Nat /\ DOMAIN t = 1 .. Len(t)
    BY LenProperties
  <2>2. Len(s) <= Len(t) /\ \A j \in 1 .. Len(s) : s[j] = t[j]
    BY <1>1, PrefixIs
  <2>3. \A j \in 1 .. i : s[j] = t[j] /\ \A k \in j .. i - 1 : s[k] = t[k]
    BY <2>1, <2>2
  <2>4. ~Marked(t, i, "(", ")")
    BY <2>3, <1>2 DEF Marked
  <2>5. i \in DOMAIN t
    BY <2>1, <2>2
  <2> QED
    BY <1>2, <2>4, <2>5, NothingHugs
<1> QED
  BY <1>1, <1>2, SanitizedGrows
-----------------------------------------------------------------------------
(* Tool calls in one piece, with nothing behind them. *)
NoMarks(s) == \A i \in DOMAIN s : s[i] \notin {"<", ">"}

LEMMA MarksFollow ==
  ASSUME NEW s \in Seq(STRING), Proper(s), NEW i \in DOMAIN s, s[i] \in {"<", ">"},
         NEW l \in i .. Len(s)
  PROVE  s[l] \in {"<", ">"}
<1>1. DOMAIN s = 1 .. Len(s) /\ Len(s) \in Nat
  BY LenProperties
<1>2. l \in DOMAIN s /\ l \in 0 .. Len(s) /\ i <= l /\ i \in 1 .. Len(s)
  BY <1>1
<1>3. PICK j \in 1 .. l : s[j] = "<"
  <2>1. CASE s[i] = "<"
    BY <2>1, <1>1, <1>2
  <2>2. CASE s[i] = ">"
    <3>1. i > 1 /\ s[i - 1] = "<"
      BY <2>2 DEF Proper
    <3>2. i - 1 \in 1 .. l
      BY <3>1, <1>1, <1>2
    <3> QED
      BY <3>1, <3>2
  <2> QED
    BY <2>1, <2>2
<1>4. Upto(s, l)[j] = s[j] /\ DOMAIN Upto(s, l) = 1 .. l
  BY <1>2, UptoIs, LenProperties
<1>5. IsIn("<", Upto(s, l))
  BY <1>3, <1>4 DEF IsIn, ToSet
<1> QED
  BY <1>2, <1>5 DEF Proper

LEMMA MarksDoNotHug ==
  ASSUME NEW s \in Seq(STRING), Proper(s), NEW i \in DOMAIN s, s[i] \in {"<", ">"}
  PROVE  ~Hugs(s, i)
<1> SUFFICES ASSUME Hugs(s, i) PROVE FALSE
  OBVIOUS
<1>1. DOMAIN s = 1 .. Len(s) /\ Len(s) \in Nat
  BY LenProperties
<1>2. PICK j \in i .. Len(s) - 1 : s[j] = "("
  BY DEF Hugs
<1>3. j \in i .. Len(s)
  BY <1>1
<1> QED
  BY <1>2, <1>3, MarksFollow

\* The marks of calls are shown or hidden together.
LEMMA MarksAlike ==
  ASSUME NEW s \in Seq(STRING), Proper(s), NEW i \in DOMAIN s, s[i] \in {"<", ">"},
         NEW l \in i .. Len(s)
  PROVE  i \in KeptPlaces(s) <=> l \in KeptPlaces(s)
<1>1. DOMAIN s = 1 .. Len(s) /\ Len(s) \in Nat
  BY LenProperties
<1>2. l \in DOMAIN s /\ i \in 1 .. Len(s) /\ i <= l
  BY <1>1
<1>3. \A k \in i .. Len(s) : s[k] \in {"<", ">"}
  BY MarksFollow
<1>4. Marked(s, i, "(", ")") => Marked(s, l, "(", ")")
  <2> SUFFICES ASSUME Marked(s, i, "(", ")") PROVE Marked(s, l, "(", ")")
    OBVIOUS
  <2>1. PICK j \in 1 .. i : s[j] = "(" /\ \A k \in j .. i - 1 : s[k] # ")"
    BY DEF Marked
  <2>2. j \in 1 .. l /\ \A k \in j .. l - 1 : k \in j .. i - 1 \/ k \in i .. Len(s)
    BY <1>1, <1>2
  <2> QED
    BY <1>3, <2>1, <2>2 DEF Marked
<1>5. Marked(s, l, "(", ")") => Marked(s, i, "(", ")")
  <2> SUFFICES ASSUME Marked(s, l, "(", ")") PROVE Marked(s, i, "(", ")")
    OBVIOUS
  <2>1. PICK j \in 1 .. l : s[j] = "(" /\ \A k \in j .. l - 1 : s[k] # ")"
    BY DEF Marked
  <2>2. j \notin i .. Len(s)
    BY <1>3, <2>1
  <2>3. j \in 1 .. i /\ \A k \in j .. i - 1 : k \in j .. l - 1
    BY <1>1, <1>2, <2>2
  <2> QED
    BY <2>1, <2>3 DEF Marked
<1>6. i \in KeptPlaces(s) <=> ~Marked(s, i, "(", ")")
  BY MarksDoNotHug DEF KeptPlaces, IsKept
<1>7. l \in KeptPlaces(s) <=> ~Marked(s, l, "(", ")")
  BY <1>2, <1>3, MarksDoNotHug DEF KeptPlaces, IsKept
<1> QED
  BY <1>4, <1>5, <1>6, <1>7

LEMMA SanitizedProper ==
  ASSUME NEW s \in Seq(STRING), Proper(s)
  PROVE  /\ Proper(Sanitized(s))
         /\ \A i \in DOMAIN Sanitized(s) : \E k \in DOMAIN s : Sanitized(s)[i] = s[k]
         /\ ~NoMarks(Sanitized(s)) => /\ s # <<>> /\ Sanitized(s) # <<>>
                                      /\ Last(Sanitized(s)) = Last(s)
<1> DEFINE v == Sanitized(s)  S == KeptPlaces(s)
<1>1. DOMAIN s = 1 .. Len(s) /\ Len(s) \in Nat
  BY LenProperties
<1>2. /\ v \in Seq(STRING) /\ Len(v) = Cardinality(S) /\ Len(v) \in Nat /\ DOMAIN v = 1 .. Len(v)
      /\ S \in SUBSET (1 .. Len(s))
      /\ \A i \in S : Rank(S, i) \in 1 .. Len(v) /\ v[Rank(S, i)] = s[i]
      /\ \A n \in 1 .. Len(v) : \E i \in S : Rank(S, i) = n
  BY <1>1, SanitizedIs, SelectedIs, LenProperties, SMTT(30)
<1>3. /\ \A i \in Int : Rank(S, i) = IF i \in S THEN Rank(S, i - 1) + 1 ELSE Rank(S, i - 1)
      /\ \A i, j \in Int : i <= j => Rank(S, i) <= Rank(S, j)
      /\ \A i \in Int : Rank(S, i) \in Int
      /\ Rank(S, Len(s)) = Cardinality(S)
  <2>1. Cardinality(S) \in Nat /\ \A i \in Int : Rank(S, i) \in 0 .. Cardinality(S)
    BY <1>1, <1>2, Ranks
  <2>2. \A i \in Int : Rank(S, i) \in Int
    BY <2>1
  <2>3. Len(s) \in Int /\ Len(s) >= Len(s)
    BY <1>1
  <2> HIDE DEF S
  <2>4. /\ \A i \in Int : Rank(S, i) = IF i \in S THEN Rank(S, i - 1) + 1 ELSE Rank(S, i - 1)
        /\ \A i, j \in Int : i <= j => Rank(S, i) <= Rank(S, j)
    BY <1>1, <1>2, Ranks
  <2>5. Rank(S, Len(s)) = Cardinality(S)
    <3>1. \A i \in Int : i >= Len(s) => Rank(S, i) = Cardinality(S)
      BY <1>1, <1>2, Ranks
    <3> QED
      BY <2>3, <3>1
  <2> QED
    BY <2>2, <2>4, <2>5
<1>4. \A i \in S : i \in DOMAIN s /\ i \in 1 .. Len(s) /\ i \in Int
  BY <1>1, <1>2
<1> HIDE DEF v, S
\* Later places have higher ranks.
<1>5. ASSUME NEW i \in S, NEW j \in S, Rank(S, i) <= Rank(S, j) PROVE i <= j
  <2> SUFFICES ASSUME i > j PROVE FALSE
    BY <1>4
  <2>1. j <= i - 1 /\ i - 1 \in Int /\ i \in Int /\ j \in Int
    BY <1>4
  <2>2. Rank(S, j) <= Rank(S, i - 1) /\ Rank(S, i) = Rank(S, i - 1) + 1
    BY <2>1, <1>3
  <2>3. Rank(S, j) \in Int /\ Rank(S, i - 1) \in Int
    BY <2>1, <1>3
  <2> QED
    BY <1>5, <2>2, <2>3
<1>6. ASSUME NEW n \in DOMAIN v, v[n] = ">" PROVE n > 1 /\ v[n - 1] = "<"
  <2>1. PICK i \in S : Rank(S, i) = n
    BY <1>2
  <2>2. s[i] = ">" /\ i \in DOMAIN s /\ i \in 1 .. Len(s)
    BY <1>2, <1>4, <1>6, <2>1
  <2>3. i > 1 /\ s[i - 1] = "<"
    BY <2>2 DEF Proper
  <2>4. i - 1 \in DOMAIN s /\ i \in i - 1 .. Len(s) /\ i - 1 \in Int
    BY <1>1, <2>2, <2>3
  <2>5. i - 1 \in S
    BY <2>1, <2>3, <2>4, MarksAlike DEF S
  <2>6. Rank(S, i) = Rank(S, i - 1) + 1
    BY <2>1, <2>2, <1>3
  <2>7. Rank(S, i - 1) \in 1 .. Len(v) /\ v[Rank(S, i - 1)] = "<"
    BY <1>2, <2>3, <2>5
  <2>8. Rank(S, i - 1) = n - 1 /\ n - 1 \in 1 .. Len(v)
    BY <1>2, <2>1, <2>6, <2>7
  <2> QED
    BY <1>2, <2>7, <2>8
<1>7. ASSUME NEW n \in DOMAIN v, v[n] # ">", n > 1 PROVE v[n - 1] # "<"
  <2> SUFFICES ASSUME v[n - 1] = "<" PROVE FALSE
    OBVIOUS
  <2>1. PICK i \in S : Rank(S, i) = n
    BY <1>2
  <2>2. n - 1 \in 1 .. Len(v) /\ n \in Int
    BY <1>2, <1>7
  <2>3. PICK j \in S : Rank(S, j) = n - 1
    BY <1>2, <2>2
  <2>4. s[i] # ">" /\ s[j] = "<"
    BY <1>2, <1>7, <2>1, <2>3
  <2>5. j <= i /\ i # j
    BY <1>5, <2>1, <2>2, <2>3
  <2>6. j + 1 \in 1 .. Len(s) /\ j + 1 > 1 /\ j + 1 \in Int /\ j + 1 <= i /\ (j + 1) - 1 = j
    BY <1>4, <2>5, <1>1
  <2>7. s[j + 1] = ">"
    BY <1>1, <2>4, <2>6 DEF Proper
  <2>8. j + 1 \in j .. Len(s)
    BY <1>1, <1>4, <2>6
  <2>9. j + 1 \in S
    BY <1>4, <2>3, <2>4, <2>8, MarksAlike DEF S
  <2>10. Rank(S, j + 1) = Rank(S, j) + 1
    BY <1>3, <2>6, <2>9
  <2>11. Rank(S, i) <= Rank(S, j + 1)
    BY <2>1, <2>2, <2>3, <2>10
  <2>12. i <= j + 1
    BY <1>5, <2>9, <2>11
  <2>13. i = j + 1
    BY <2>6, <2>12, <1>4
  <2> QED
    BY <2>4, <2>7, <2>13
<1>8. ASSUME NEW n \in DOMAIN v, v[n] \notin {"<", ">"}, IsIn("<", Upto(v, n)) PROVE FALSE
  <2>1. n \in 0 .. Len(v)
    BY <1>2
  <2>2. PICK m \in 1 .. n : v[m] = "<"
    <3>1. DOMAIN Upto(v, n) = 1 .. n /\ \A m \in 1 .. n : Upto(v, n)[m] = v[m]
      <4>1. v \in Seq(STRING) /\ n \in 0 .. Len(v)
        BY <1>2, <2>1
      <4>2. /\ Upto(v, n) \in Seq(STRING) /\ Len(Upto(v, n)) = n
            /\ \A m \in 1 .. n : Upto(v, n)[m] = v[m]
        BY <4>1, UptoIs
      <4> QED
        BY <4>2, LenProperties
    <3> QED
      BY <1>8, <3>1 DEF IsIn, ToSet
  <2>3. m \in 1 .. Len(v) /\ m <= n
    BY <1>2
  <2>4. PICK i \in S : Rank(S, i) = m
    BY <1>2, <2>3
  <2>5. PICK j \in S : Rank(S, j) = n
    BY <1>2
  <2>6. s[i] = "<" /\ s[j] \notin {"<", ">"}
    BY <1>2, <1>8, <2>2, <2>4, <2>5
  <2>7. i <= j
    BY <1>5, <2>3, <2>4, <2>5
  <2>8. j \in i .. Len(s)
    BY <1>1, <1>4, <2>7
  <2> QED
    BY <1>4, <2>6, <2>8, MarksFollow
<1>9. Proper(v)
  BY <1>6, <1>7, <1>8 DEF Proper
<1>10. \A i \in DOMAIN v : \E k \in DOMAIN s : v[i] = s[k]
  BY <1>2, <1>4
<1>11. ASSUME ~NoMarks(v) PROVE s # <<>> /\ v # <<>> /\ Last(v) = Last(s)
  <2>1. PICK n \in DOMAIN v : v[n] \in {"<", ">"}
    BY <1>11 DEF NoMarks
  <2>2. PICK i \in S : Rank(S, i) = n
    BY <1>2
  <2>3. s[i] \in {"<", ">"}
    BY <1>2, <2>1, <2>2
  <2>4. Len(s) \in i .. Len(s)
    BY <1>1, <1>4
  <2>5. Len(s) \in S
    BY <1>4, <2>3, <2>4, MarksAlike DEF S
  <2>6. v[Len(v)] = s[Len(s)]
    BY <1>2, <1>3, <2>5
  <2>7. s # <<>> /\ v # <<>>
    BY <1>1, <1>2, <1>4, <2>1
  <2> QED
    BY <2>6, <2>7 DEF Last
<1> QED
  BY <1>9, <1>10, <1>11 DEF v

\* Behind a call, no space goes away.
LEMMA GrowsBehindCall ==
  ASSUME NEW s \in Seq(STRING), NEW t \in Seq(STRING), Proper(t), IsPrefix(s, t), ~NoMarks(s)
  PROVE  IsPrefix(Sanitized(s), Sanitized(t))
<1>1. DOMAIN s = 1 .. Len(s) /\ Len(s) \in Nat /\ DOMAIN t = 1 .. Len(t) /\ Len(t) \in Nat
  BY LenProperties
<1>2. Len(s) <= Len(t) /\ \A i \in 1 .. Len(s) : s[i] = t[i]
  BY PrefixIs
<1>3. PICK p \in 1 .. Len(s) : s[p] \in {"<", ">"}
  BY <1>1 DEF NoMarks
<1>4. \A k \in p .. Len(t) : t[k] \in {"<", ">"}
  <2>1. p \in DOMAIN t /\ t[p] \in {"<", ">"}
    BY <1>1, <1>2, <1>3
  <2> QED
    BY <2>1, MarksFollow
<1>5. ASSUME NEW i \in DOMAIN s PROVE Hugs(s, i) <=> Hugs(t, i)
  <2>1. ASSUME Hugs(s, i) PROVE Hugs(t, i)
    <3>1. PICK j \in i .. Len(s) - 1, k \in i .. Len(s) - 1 :
            /\ s[j] = "(" /\ \A n \in i .. j - 1 : s[n] = " "
            /\ j < k /\ s[k] = ")" /\ \A n \in j .. k - 1 : s[n] \notin {"w", ")"}
            /\ s[k + 1] = "."
      BY <2>1 DEF Hugs
    <3>2. j \in i .. Len(t) - 1 /\ k \in i .. Len(t) - 1
      BY <1>1, <1>2
    <3>3. /\ j \in 1 .. Len(s) /\ k \in 1 .. Len(s) /\ k + 1 \in 1 .. Len(s)
          /\ \A n \in i .. j - 1 : n \in 1 .. Len(s)
          /\ \A n \in j .. k - 1 : n \in 1 .. Len(s)
      BY <1>1
    <3>4. /\ t[j] = "(" /\ \A n \in i .. j - 1 : t[n] = " "
          /\ t[k] = ")" /\ \A n \in j .. k - 1 : t[n] \notin {"w", ")"}
          /\ t[k + 1] = "."
      BY <1>2, <3>1, <3>3
    <3> QED
      BY <3>1, <3>2, <3>4 DEF Hugs
  <2>2. ASSUME Hugs(t, i) PROVE Hugs(s, i)
    <3>1. PICK j \in i .. Len(t) - 1, k \in i .. Len(t) - 1 :
            /\ t[j] = "(" /\ \A n \in i .. j - 1 : t[n] = " "
            /\ j < k /\ t[k] = ")" /\ \A n \in j .. k - 1 : t[n] \notin {"w", ")"}
            /\ t[k + 1] = "."
      BY <2>2 DEF Hugs
    <3>2. k + 1 \notin p .. Len(t)
      BY <1>4, <3>1
    <3>3. k + 1 < p
      BY <3>2, <1>1
    <3>4. j \in i .. Len(s) - 1 /\ k \in i .. Len(s) - 1
      <4>1. j < k
        BY <3>1
      <4>2. i \in Int /\ p \in Int /\ p <= Len(s) /\ Len(s) \in Int /\ Len(t) \in Int
        BY <1>1
      <4> QED
        BY <4>1, <4>2, <3>3
    <3>5. /\ j \in 1 .. Len(s) /\ k \in 1 .. Len(s) /\ k + 1 \in 1 .. Len(s)
          /\ \A n \in i .. j - 1 : n \in 1 .. Len(s)
          /\ \A n \in j .. k - 1 : n \in 1 .. Len(s)
      BY <1>1, <3>4
    <3>6. /\ s[j] = "(" /\ \A n \in i .. j - 1 : s[n] = " "
          /\ s[k] = ")" /\ \A n \in j .. k - 1 : s[n] \notin {"w", ")"}
          /\ s[k + 1] = "."
      BY <1>2, <3>1, <3>5
    <3> QED
      BY <3>1, <3>4, <3>6 DEF Hugs
  <2> QED
    BY <2>1, <2>2
<1> QED
  BY <1>5, SanitizedGrows

LEMMA ProperBehind ==
  ASSUME NEW s \in Seq(STRING), NEW t \in Seq(STRING), NoMarks(s), Proper(t)
  PROVE  Proper(s \o t)
<1> DEFINE g == s \o t
<1>1. DOMAIN s = 1 .. Len(s) /\ Len(s) \in Nat /\ DOMAIN t = 1 .. Len(t) /\ Len(t) \in Nat
  BY LenProperties
<1>2. g \in Seq(STRING) /\ Len(g) = Len(s) + Len(t) /\ DOMAIN g = 1 .. Len(s) + Len(t)
      /\ \A i \in 1 .. Len(s) + Len(t) : g[i] = IF i <= Len(s) THEN s[i] ELSE t[i - Len(s)]
  BY ConcatProperties, LenProperties
<1> HIDE DEF g
<1>3. ASSUME NEW i \in 1 .. Len(s) PROVE i \in DOMAIN g /\ g[i] \notin {"<", ">"}
  BY <1>1, <1>2 DEF NoMarks
<1>4. ASSUME NEW i \in DOMAIN g, i > Len(s)
      PROVE  i - Len(s) \in DOMAIN t /\ g[i] = t[i - Len(s)]
  BY <1>1, <1>2, <1>4
<1>5. \A i \in DOMAIN g : i \in 1 .. Len(s) \/ i > Len(s)
  BY <1>1, <1>2
<1>6. ASSUME NEW i \in DOMAIN g, g[i] = ">" PROVE i > 1 /\ g[i - 1] = "<"
  <2>1. i > Len(s)
    BY <1>3, <1>5, <1>6
  <2>2. i - Len(s) > 1 /\ t[i - Len(s) - 1] = "<"
    BY <1>4, <1>6, <2>1 DEF Proper
  <2>3. i - 1 \in DOMAIN g /\ i - 1 > Len(s) /\ (i - 1) - Len(s) = i - Len(s) - 1 /\ i > 1
    BY <1>1, <1>2, <2>1, <2>2
  <2> QED
    BY <1>4, <2>2, <2>3
<1>7. ASSUME NEW i \in DOMAIN g, g[i] # ">", i > 1 PROVE g[i - 1] # "<"
  <2>1. CASE i - 1 \in 1 .. Len(s)
    BY <1>3, <2>1
  <2>2. CASE i - 1 \notin 1 .. Len(s)
    <3>1. i - 1 \in DOMAIN g /\ i - 1 > Len(s) /\ i > Len(s) /\ i - Len(s) > 1
          /\ (i - 1) - Len(s) = i - Len(s) - 1
      BY <1>1, <1>2, <1>7, <2>2
    <3>2. t[i - Len(s)] # ">" /\ i - Len(s) \in DOMAIN t
      BY <1>4, <1>7, <3>1
    <3>3. t[i - Len(s) - 1] # "<"
      BY <3>1, <3>2 DEF Proper
    <3> QED
      BY <1>4, <3>1, <3>3
  <2> QED
    BY <2>1, <2>2
<1>8. ASSUME NEW i \in DOMAIN g, g[i] \notin {"<", ">"}, IsIn("<", Upto(g, i)) PROVE FALSE
  <2>1. i \in 0 .. Len(g) /\ i \in 1 .. Len(g)
    BY <1>1, <1>2
  <2>2. PICK k \in 1 .. i : g[k] = "<"
    <3>1. DOMAIN Upto(g, i) = 1 .. i /\ \A k \in 1 .. i : Upto(g, i)[k] = g[k]
      <4>1. g \in Seq(STRING)
        BY <1>2
      <4>2. Upto(g, i) \in Seq(STRING) /\ Len(Upto(g, i)) = i /\ \A k \in 1 .. i : Upto(g, i)[k] = g[k]
        BY <4>1, <2>1, UptoIs
      <4>3. DOMAIN Upto(g, i) = 1 .. Len(Upto(g, i))
        BY <4>2, LenProperties
      <4> QED
        BY <4>2, <4>3
    <3> QED
      BY <1>8, <3>1 DEF IsIn, ToSet
  <2>3. k \in DOMAIN g /\ k <= i /\ k \in Int
    BY <1>1, <1>2
  <2>4. k > Len(s) /\ i > Len(s)
    <3>1. k > Len(s)
      BY <1>3, <1>5, <2>2, <2>3
    <3> QED
      BY <3>1, <2>3, <1>1, <1>2
  <2>5. /\ k - Len(s) \in DOMAIN t /\ t[k - Len(s)] = "<"
        /\ i - Len(s) \in DOMAIN t /\ t[i - Len(s)] \notin {"<", ">"}
    BY <1>4, <1>8, <2>2, <2>3, <2>4
  <2>6. i - Len(s) \in k - Len(s) .. Len(t)
    BY <1>1, <1>2, <2>3, <2>5
  <2> QED
    BY <2>5, <2>6, MarksFollow
<1> QED
  BY <1>6, <1>7, <1>8 DEF Proper, g
-----------------------------------------------------------------------------
(* What of an answer is not a call. *)
LEMMA LeastIs ==
  ASSUME NEW B \in SUBSET Nat, B # {}
  PROVE  Min(B) \in B /\ \A y \in B : Min(B) <= y
<1>1. \E x \in B : \A y \in B : x <= y
  BY LeastNumber
<1> QED
  BY <1>1 DEF Min

LEMMA GreatestIs ==
  ASSUME NEW n \in Nat, NEW B \in SUBSET (0 .. n), B # {}
  PROVE  Max(B) \in B /\ \A y \in B : Max(B) >= y
<1> DEFINE C == {m \in Nat : \A y \in B : m >= y}
<1>1. C \in SUBSET Nat /\ C # {}
  <2>1. n \in C
    OBVIOUS
  <2> QED
    BY <2>1
<1>2. PICK m \in C : \A l \in C : m <= l
  <2> HIDE DEF C
  <2> QED
    BY <1>1, LeastNumber
<1>3. m \in Nat /\ \A y \in B : m >= y
  BY <1>2
<1>4. m \in B
  <2> SUFFICES ASSUME m \notin B PROVE FALSE
    OBVIOUS
  <2>1. PICK x \in B : TRUE
    OBVIOUS
  <2>2. \A y \in B : y \in Nat /\ m > y
    <3>1. \A y \in B : y \in Nat /\ m >= y /\ y # m
      BY <1>3
    <3> QED
      BY <1>3, <3>1
  <2>3. m - 1 \in Nat /\ \A y \in B : m - 1 >= y
    <3>1. m > x /\ x \in Nat
      BY <2>2
    <3> QED
      BY <1>3, <2>2, <3>1
  <2>4. m - 1 \in C
    BY <2>3
  <2>5. m <= m - 1
    <3> HIDE DEF C
    <3> QED
      BY <1>2, <2>4
  <2> QED
    BY <1>3, <2>5
<1>5. \E x \in B : \A y \in B : x >= y
  BY <1>3, <1>4
<1> QED
  BY <1>5 DEF Max

LEMMA TrimmedIs ==
  ASSUME NEW s \in Seq(STRING)
  PROVE  /\ Trimmed(s) \in Seq(STRING)
         /\ IsPrefix(Trimmed(s), s)
         /\ (\A i \in DOMAIN s : s[i] # " ") => Trimmed(s) = s
<1> DEFINE B == NoSpaces(s) \cup {0}
<1>1. DOMAIN s = 1 .. Len(s) /\ Len(s) \in Nat
  BY LenProperties
<1>2. B \in SUBSET (0 .. Len(s)) /\ B # {}
  <2>1. NoSpaces(s) \subseteq 1 .. Len(s)
    BY <1>1 DEF NoSpaces
  <2>2. 1 .. Len(s) \subseteq 0 .. Len(s) /\ 0 \in 0 .. Len(s)
    BY <1>1
  <2> QED
    BY <2>1, <2>2
<1>3. Max(B) \in B /\ \A y \in B : Max(B) >= y
  <2> HIDE DEF B
  <2> QED
    BY <1>1, <1>2, GreatestIs
<1>4. Max(B) \in 0 .. Len(s)
  <2> HIDE DEF B
  <2> QED
    BY <1>2, <1>3
<1>5. /\ Upto(s, Max(B)) \in Seq(STRING) /\ Len(Upto(s, Max(B))) = Max(B)
      /\ \A i \in 1 .. Max(B) : Upto(s, Max(B))[i] = s[i]
  <2> HIDE DEF B
  <2> QED
    BY <1>4, UptoIs
<1>6. IsPrefix(Upto(s, Max(B)), s)
  <2> HIDE DEF B
  <2> QED
    BY <1>1, <1>4, <1>5, PrefixIs
<1>7. ASSUME \A i \in DOMAIN s : s[i] # " " PROVE Upto(s, Max(B)) = s
  <2>1. Len(s) \in B
    <3>1. CASE Len(s) = 0
      BY <3>1
    <3>2. CASE Len(s) # 0
      <4>1. Len(s) \in DOMAIN s
        BY <1>1, <3>2
      <4> QED
        BY <4>1, <1>7 DEF NoSpaces
    <3> QED
      BY <3>1, <3>2
  <2>2. Max(B) = Len(s)
    <3> HIDE DEF B
    <3>1. Max(B) >= Len(s)
      BY <1>3, <2>1
    <3> QED
      BY <1>1, <1>4, <3>1
  <2> QED
    BY <2>2, SubSeqFull DEF Upto
<1> QED
  BY <1>5, <1>6, <1>7 DEF Trimmed

LEMMA StrippedIs ==
  ASSUME NEW s \in Seq(STRING)
  PROVE  /\ Stripped(s) \in Seq(STRING)
         /\ Len(Stripped(s)) <= Len(Trimmed(s))
         /\ (\A i \in DOMAIN s : s[i] # " ") => Stripped(s) = s
<1> DEFINE B == NoSpaces(s) \cup {Len(s) + 1}
           t == Trimmed(s)
<1>1. DOMAIN s = 1 .. Len(s) /\ Len(s) \in Nat
  BY LenProperties
<1>2. B \in SUBSET (1 .. Len(s) + 1) /\ B # {}
  <2>1. NoSpaces(s) \subseteq 1 .. Len(s)
    BY <1>1 DEF NoSpaces
  <2>2. 1 .. Len(s) \subseteq 1 .. Len(s) + 1 /\ Len(s) + 1 \in 1 .. Len(s) + 1
    BY <1>1
  <2> QED
    BY <2>1, <2>2
<1>3. Min(B) \in B /\ \A y \in B : Min(B) <= y
  <2>1. B \in SUBSET Nat
    <3> HIDE DEF B
    <3> QED
      BY <1>1, <1>2
  <2> HIDE DEF B
  <2> QED
    BY <1>2, <2>1, LeastIs
<1>4. Min(B) \in 1 .. Len(s) + 1 /\ Min(B) - 1 \in Nat
  <2>1. Min(B) \in 1 .. Len(s) + 1
    <3> HIDE DEF B
    <3> QED
      BY <1>2, <1>3
  <2> HIDE DEF B
  <2> QED
    BY <1>1, <2>1
<1>5. t \in Seq(STRING) /\ Len(t) \in Nat
  BY TrimmedIs, LenProperties
<1>6. /\ After(t, Min(B) - 1) \in Seq(STRING)
      /\ Len(After(t, Min(B) - 1)) = IF Min(B) - 1 <= Len(t) THEN Len(t) - (Min(B) - 1) ELSE 0
  <2> HIDE DEF B, t
  <2> QED
    BY <1>4, <1>5, AfterIs
<1>7. Len(After(t, Min(B) - 1)) <= Len(t)
  <2> HIDE DEF B, t
  <2> QED
    BY <1>4, <1>5, <1>6
<1>8. ASSUME \A i \in DOMAIN s : s[i] # " " PROVE After(t, Min(B) - 1) = s
  <2>1. 1 \in B
    <3>1. CASE Len(s) = 0
      BY <3>1
    <3>2. CASE Len(s) # 0
      <4>1. 1 \in DOMAIN s
        BY <1>1, <3>2
      <4> QED
        BY <4>1, <1>8 DEF NoSpaces
    <3> QED
      BY <3>1, <3>2
  <2>2. Min(B) = 1
    <3> HIDE DEF B
    <3>1. Min(B) <= 1
      BY <1>3, <2>1
    <3> QED
      BY <1>1, <1>4, <3>1
  <2>3. t = s
    BY <1>8, TrimmedIs
  <2>4. After(s, 0) = s
    BY <1>1, SubSeqFull DEF After
  <2> QED
    BY <2>2, <2>3, <2>4
<1> QED
  BY <1>6, <1>7, <1>8 DEF Stripped

\* What comes before the first call.
Words(s) == Upto(s, First("<", s) - 1)

LEMMA WordsAre ==
  ASSUME NEW s \in Seq(STRING), IsIn("<", s)
  PROVE  /\ First("<", s) \in 1 .. Len(s)
         /\ Words(s) \in Seq(STRING)
         /\ Len(Words(s)) = First("<", s) - 1
         /\ \A i \in 1 .. First("<", s) - 1 : Words(s)[i] = s[i] /\ s[i] # "<"
         /\ IsPrefix(Words(s), s)
<1>1. /\ First("<", s) \in 1 .. Len(s) /\ Len(s) \in Nat
      /\ \A j \in 1 .. First("<", s) - 1 : s[j] # "<"
  BY FirstIs, LenProperties
<1>2. First("<", s) - 1 \in 0 .. Len(s)
  BY <1>1
<1>3. /\ Words(s) \in Seq(STRING) /\ Len(Words(s)) = First("<", s) - 1
      /\ \A i \in 1 .. First("<", s) - 1 : Words(s)[i] = s[i]
  BY <1>2, UptoIs DEF Words
<1>4. IsPrefix(Words(s), s)
  BY <1>1, <1>2, <1>3, PrefixIs
<1> QED
  BY <1>1, <1>3, <1>4

\* More text does not change what comes before the first call.
LEMMA WordsStay ==
  ASSUME NEW s \in Seq(STRING), NEW t \in Seq(STRING), IsIn("<", s)
  PROVE  IsIn("<", s \o t) /\ Words(s \o t) = Words(s)
<1> DEFINE g == s \o t
<1>1. /\ First("<", s) \in 1 .. Len(s) /\ s[First("<", s)] = "<"
      /\ Len(s) \in Nat /\ Len(t) \in Nat /\ \A j \in 1 .. First("<", s) - 1 : s[j] # "<"
  BY FirstIs, LenProperties
<1>2. g \in Seq(STRING) /\ Len(g) = Len(s) + Len(t) /\ DOMAIN g = 1 .. Len(g)
      /\ \A i \in 1 .. Len(s) + Len(t) : g[i] = IF i <= Len(s) THEN s[i] ELSE t[i - Len(s)]
  BY ConcatProperties, LenProperties
<1> HIDE DEF g
<1>3. \A i \in 1 .. Len(s) : i \in DOMAIN g /\ g[i] = s[i]
  BY <1>1, <1>2
<1>4. IsIn("<", g)
  BY <1>1, <1>3 DEF IsIn, ToSet
<1>5. First("<", g) = First("<", s)
  <2>1. /\ First("<", g) \in 1 .. Len(g) /\ g[First("<", g)] = "<"
        /\ \A j \in 1 .. First("<", g) - 1 : g[j] # "<"
    BY <1>2, <1>4, FirstIs
  <2>2. ~(First("<", s) < First("<", g))
    <3>1. First("<", s) \notin 1 .. First("<", g) - 1
      BY <1>1, <1>3, <2>1
    <3> QED
      BY <1>1, <2>1, <3>1
  <2>3. ~(First("<", g) < First("<", s))
    <3> SUFFICES ASSUME First("<", g) < First("<", s) PROVE FALSE
      OBVIOUS
    <3>1. First("<", g) \in 1 .. First("<", s) - 1 /\ First("<", g) \in 1 .. Len(s)
      BY <1>1, <1>2, <2>1
    <3> QED
      BY <1>1, <1>3, <2>1, <3>1
  <2> QED
    BY <1>1, <1>2, <2>1, <2>2, <2>3
<1>6. /\ Words(s) \in Seq(STRING) /\ Len(Words(s)) = First("<", s) - 1
      /\ \A i \in 1 .. First("<", s) - 1 : Words(s)[i] = s[i]
      /\ Words(g) \in Seq(STRING) /\ Len(Words(g)) = First("<", s) - 1
      /\ \A i \in 1 .. First("<", s) - 1 : Words(g)[i] = g[i]
  BY <1>2, <1>4, <1>5, WordsAre
<1>7. \A i \in 1 .. First("<", s) - 1 : Words(g)[i] = Words(s)[i]
  <2>1. \A i \in 1 .. First("<", s) - 1 : i \in 1 .. Len(s)
    BY <1>1
  <2> QED
    BY <1>3, <1>6, <2>1
<1>8. Words(g) = Words(s)
  BY <1>6, <1>7, SeqEqual
<1> QED
  BY <1>4, <1>8 DEF g

LEMMA CallsCount ==
  ASSUME NEW s \in Seq(STRING)
  PROVE  Calls(s) \in Nat /\ (Calls(s) > 0 => IsIn("<", s))
<1> DEFINE B == {i \in DOMAIN s : s[i] = ">" /\ InCall(s, i)}
<1>1. DOMAIN s = 1 .. Len(s) /\ Len(s) \in Nat
  BY LenProperties
<1>2. IsFiniteSet(B) /\ Cardinality(B) \in Nat
  <2>1. B \in SUBSET (1 .. Len(s)) /\ IsFiniteSet(1 .. Len(s))
    BY <1>1, FS_Interval
  <2> HIDE DEF B
  <2> QED
    BY <2>1, FS_Subset, FS_CardinalityType
<1>3. ASSUME B # {} PROVE IsIn("<", s)
  <2>1. PICK i \in B : TRUE
    BY <1>3
  <2>2. i \in 1 .. Len(s) /\ Marked(s, i, "<", ">")
    BY <1>1, <2>1 DEF InCall
  <2>3. PICK j \in 1 .. i : s[j] = "<"
    BY <2>2 DEF Marked
  <2>4. j \in DOMAIN s
    BY <1>1, <2>2
  <2> QED
    BY <2>3, <2>4 DEF IsIn, ToSet
<1>4. Calls(s) = Cardinality(B)
  BY DEF Calls
<1>5. B = {} => Cardinality(B) = 0
  BY FS_EmptySet
<1> HIDE DEF B
<1> QED
  BY <1>2, <1>3, <1>4, <1>5

LEMMA NoCallNoMarks ==
  ASSUME NEW s \in Seq(STRING), Proper(s)
  PROVE  IsIn("<", s) \/ NoMarks(s)
<1> SUFFICES ASSUME ~IsIn("<", s), NEW i \in DOMAIN s, s[i] \in {"<", ">"} PROVE FALSE
  BY DEF NoMarks
<1>1. s[i] = ">"
  BY DEF IsIn, ToSet
<1>2. i > 1 /\ s[i - 1] = "<" /\ i \in 1 .. Len(s) /\ Len(s) \in Nat /\ DOMAIN s = 1 .. Len(s)
  BY <1>1, LenProperties DEF Proper
<1>3. i - 1 \in DOMAIN s
  BY <1>2
<1> QED
  BY <1>2, <1>3 DEF IsIn, ToSet

\* All that is not a call comes before the first one, unless a call was left open.
LEMMA PlainIsWords ==
  ASSUME NEW s \in Seq(STRING), Proper(s), s = <<>> \/ Last(s) # "<"
  PROVE  Plain(s) = IF IsIn("<", s) THEN Words(s) ELSE s
<1>1. DOMAIN s = 1 .. Len(s) /\ Len(s) \in Nat
  BY LenProperties
<1> DEFINE B == {i \in DOMAIN s : ~InCall(s, i)}
<1>2. CASE IsIn("<", s)
  <2> DEFINE c == First("<", s)
  <2>1. c \in 1 .. Len(s) /\ s[c] = "<" /\ \A j \in 1 .. c - 1 : s[j] # "<"
    BY <1>1, <1>2, FirstIs
  <2>2. c \in DOMAIN s
    BY <1>1, <2>1
  <2> HIDE DEF c
  <2>3. ASSUME NEW i \in 1 .. c - 1 PROVE ~InCall(s, i)
    <3>1. \A j \in 1 .. i : j \in 1 .. c - 1
      BY <2>1
    <3> QED
      BY <2>1, <3>1 DEF InCall, Marked
  <2>4. ASSUME NEW i \in c .. Len(s) PROVE InCall(s, i)
    <3>1. s[i] \in {"<", ">"} /\ i \in DOMAIN s /\ i \in Int
      <4>1. s[i] \in {"<", ">"}
        BY <2>1, <2>2, MarksFollow
      <4> QED
        BY <1>1, <2>1, <4>1
    <3>2. CASE s[i] = "<"
      <4>1. s # <<>> /\ s[Len(s)] # "<"
        BY <1>1, <2>1 DEF Last
      <4>2. i # Len(s)
        BY <3>2, <4>1
      <4>3. i + 1 \in DOMAIN s /\ i + 1 > 1 /\ (i + 1) - 1 = i /\ i + 1 \in i .. Len(s)
        BY <1>1, <3>1, <4>2
      <4>4. s[i + 1] = ">"
        BY <3>2, <4>3 DEF Proper
      <4>5. Marked(s, i, "<", ">")
        <5>1. i \in 1 .. i /\ \A k \in i .. i - 1 : s[k] # ">"
          BY <1>1, <3>1
        <5> QED
          BY <3>2, <5>1 DEF Marked
      <4> QED
        BY <4>3, <4>4, <4>5 DEF InCall, IsClosed
    <3>3. CASE s[i] = ">"
      <4>1. i > 1 /\ s[i - 1] = "<"
        BY <3>1, <3>3 DEF Proper
      <4>2. i - 1 \in 1 .. i /\ i \in i .. Len(s) /\ \A k \in i - 1 .. i - 1 : k = i - 1
        BY <1>1, <3>1, <4>1
      <4>3. Marked(s, i, "<", ">")
        BY <4>1, <4>2 DEF Marked
      <4> QED
        BY <3>3, <4>2, <4>3 DEF InCall, IsClosed
    <3> QED
      BY <3>1, <3>2, <3>3
  <2>5. \A i \in DOMAIN s : i \in 1 .. c - 1 <=> ~ (i \in c .. Len(s))
    BY <1>1, <2>1
  <2>6. \A i \in DOMAIN s : i \in 1 .. c - 1 <=> ~InCall(s, i)
    BY <2>3, <2>4, <2>5
  <2>7. 1 .. c - 1 \subseteq DOMAIN s /\ c - 1 \in 0 .. Len(s)
    BY <1>1, <2>1
  <2>8. B = 1 .. c - 1
    BY <2>6, <2>7
  <2>9. Plain(s) = Selected(s, 1 .. c - 1)
    BY <2>8 DEF Plain
  <2>10. Plain(s) = SubSeq(s, 1, c - 1)
    BY <2>7, <2>9, SelectsFirst
  <2> QED
    BY <1>2, <2>10 DEF Words, Upto, c
<1>3. CASE ~IsIn("<", s)
  <2>1. ASSUME NEW i \in DOMAIN s PROVE ~InCall(s, i)
    <3>1. \A j \in 1 .. i : j \in DOMAIN s
      BY <1>1
    <3> QED
      BY <1>3, <3>1 DEF InCall, Marked, IsIn, ToSet
  <2>2. B = 1 .. Len(s)
    BY <1>1, <2>1
  <2>3. Plain(s) = Selected(s, 1 .. Len(s)) /\ Len(s) \in 0 .. Len(s)
    <3>1. Plain(s) = Selected(s, B)
      BY DEF Plain
    <3>2. Len(s) \in 0 .. Len(s)
      BY <1>1
    <3> QED
      BY <2>2, <3>1, <3>2
  <2>4. Plain(s) = SubSeq(s, 1, Len(s))
    BY <2>3, SelectsFirst
  <2> QED
    BY <1>3, <2>4, SubSeqFull
<1> QED
  BY <1>2, <1>3
-----------------------------------------------------------------------------
(* Joining texts, by the joins of the first ones. *)
Joins(ss, g) == g[1] = ss[1] /\ \A i \in 2 .. Len(ss) : g[i] = g[i - 1] \o ss[i]

LEMMA JoinsExist ==
  ASSUME NEW T, NEW ss \in Seq(Seq(T)), ss # <<>>
  PROVE  \E g \in [1 .. Len(ss) -> Seq(T)] : Joins(ss, g)
<1>1. Len(ss) \in Nat /\ Len(ss) > 0 /\ \A i \in 1 .. Len(ss) : ss[i] \in Seq(T)
  <2>1. Len(ss) \in Nat \ {0}
    BY EmptySeq
  <2> QED
    BY <2>1, ElementOfSeq
<1> DEFINE To(n, g) == g[1] = ss[1] /\ \A i \in 2 .. n : g[i] = g[i - 1] \o ss[i]
           B == {n \in 1 .. Len(ss) : ~ \E g \in [1 .. n -> Seq(T)] : To(n, g)}
<1>2. B = {}
  <2> SUFFICES ASSUME B # {} PROVE FALSE
    OBVIOUS
  <2>1. PICK n \in B : \A m \in B : n <= m
    <3>1. \A n \in 1 .. Len(ss) : n \in Nat
      OBVIOUS
    <3>2. B \in SUBSET Nat
      BY <3>1
    <3> HIDE DEF B
    <3> QED
      BY <3>2, LeastNumber
  <2>2. n # 1
    <3> DEFINE g == [i \in 1 .. 1 |-> ss[1]]
    <3>1. ss[1] \in Seq(T) /\ 1 \in 1 .. 1
      <4>1. 1 \in 1 .. Len(ss) /\ 1 \in 1 .. 1
        BY <1>1
      <4> QED
        BY <1>1, <4>1
    <3>2. g \in [1 .. 1 -> Seq(T)] /\ g[1] = ss[1] /\ 2 .. 1 = {}
      BY <3>1
    <3>3. 1 \notin B
      <4> HIDE DEF g
      <4> QED
        BY <3>2
    <3> QED
      BY <3>3
  <2>3. n \in 1 .. Len(ss) /\ n - 1 \in 1 .. Len(ss) /\ n - 1 \notin B
    <3>1. n \in 1 .. Len(ss)
      BY <2>1
    <3>2. n - 1 \in 1 .. Len(ss) /\ ~(n <= n - 1)
      BY <1>1, <2>2, <3>1
    <3> HIDE DEF B
    <3> QED
      BY <3>1, <3>2, <2>1
  <2>4. PICK g \in [1 .. n - 1 -> Seq(T)] : To(n - 1, g)
    BY <2>3
  <2> DEFINE h == [i \in 1 .. n |-> IF i = n THEN g[n - 1] \o ss[n] ELSE g[i]]
  <2>5. h \in [1 .. n -> Seq(T)]
    <3>1. g[n - 1] \in Seq(T) /\ ss[n] \in Seq(T)
      <4>1. n - 1 \in 1 .. n - 1
        BY <1>1, <2>3
      <4> QED
        BY <4>1, <1>1, <2>3
    <3>2. g[n - 1] \o ss[n] \in Seq(T)
      BY <3>1, ConcatProperties
    <3>3. \A i \in 1 .. n : i # n => g[i] \in Seq(T)
      <4>1. \A i \in 1 .. n : i # n => i \in 1 .. n - 1
        BY <1>1, <2>3
      <4> QED
        BY <4>1
    <3> QED
      BY <3>2, <3>3
  <2>6. h[1] = ss[1]
    <3>1. 1 \in 1 .. n /\ 1 # n
      BY <1>1, <2>2, <2>3
    <3> QED
      BY <3>1, <2>4
  <2>7. ASSUME NEW i \in 2 .. n PROVE h[i] = h[i - 1] \o ss[i]
    <3>1. i \in 1 .. n /\ i - 1 \in 1 .. n /\ i - 1 # n
      BY <2>3
    <3>2. h[i - 1] = g[i - 1]
      BY <3>1
    <3>3. CASE i = n
      BY <3>1, <3>2, <3>3
    <3>4. CASE i # n
      <4>1. i \in 2 .. n - 1
        BY <3>4, <2>3
      <4>2. g[i] = g[i - 1] \o ss[i]
        BY <4>1, <2>4
      <4> QED
        BY <3>1, <3>2, <3>4, <4>2
    <3> QED
      BY <3>3, <3>4
  <2>8. To(n, h)
    <3> HIDE DEF h
    <3> QED
      BY <2>6, <2>7
  <2>9. n \notin B
    <3> HIDE DEF h, To
    <3> QED
      BY <2>5, <2>8
  <2> QED
    BY <2>1, <2>9
<1>3. Len(ss) \in 1 .. Len(ss)
  BY <1>1
<1> QED
  BY <1>2, <1>3 DEF Joins

LEMMA JoinedIs ==
  ASSUME NEW T, NEW ss \in Seq(Seq(T)), ss # <<>>,
         NEW g \in [1 .. Len(ss) -> Seq(T)], Joins(ss, g)
  PROVE  FlattenSeq(ss) = g[Len(ss)]
<1>1. Len(ss) \in Nat /\ Len(ss) > 0
  <2>1. Len(ss) \in Nat \ {0}
    BY EmptySeq
  <2> QED
    BY <2>1
<1> DEFINE Next1(f) == [i \in 1 .. Len(ss) |-> IF i = 1 THEN ss[i] ELSE f[i - 1] \o ss[i]]
           h == CHOOSE f : f = Next1(f)
<1>2. g = Next1(g)
  <2>1. ASSUME NEW i \in 1 .. Len(ss)
        PROVE  g[i] = IF i = 1 THEN ss[i] ELSE g[i - 1] \o ss[i]
    <3>1. i # 1 => i \in 2 .. Len(ss)
      BY <1>1
    <3> QED
      BY <3>1 DEF Joins
  <2> QED
    BY <2>1
<1>3. h = Next1(h)
  <2>1. \E f : f = Next1(f)
    BY <1>2
  <2> HIDE DEF Next1
  <2> QED
    BY <2>1
<1>4. FlattenSeq(ss) = h[Len(ss)]
  BY <1>1 DEF FlattenSeq
<1> HIDE DEF h
<1> DEFINE B == {i \in 1 .. Len(ss) : h[i] # g[i]}
<1>5. B = {}
  <2> SUFFICES ASSUME B # {} PROVE FALSE
    OBVIOUS
  <2>1. PICK n \in B : \A m \in B : n <= m
    <3>1. B \in SUBSET Nat
      BY <1>1
    <3> HIDE DEF B
    <3> QED
      BY <3>1, LeastNumber
  <2>2. n \in 1 .. Len(ss) /\ h[n] # g[n]
    BY <2>1
  <2>3. n # 1
    <3>1. 1 \in 1 .. Len(ss)
      BY <1>1
    <3>2. h[1] = ss[1]
      BY <1>3, <3>1
    <3> QED
      BY <2>2, <3>2 DEF Joins
  <2>4. n - 1 \in 1 .. Len(ss) /\ n \in 2 .. Len(ss) /\ ~(n <= n - 1)
    BY <1>1, <2>2, <2>3
  <2>5. n - 1 \notin B
    <3> HIDE DEF B
    <3> QED
      BY <2>1, <2>4
  <2>6. h[n - 1] = g[n - 1]
    BY <2>4, <2>5
  <2>7. h[n] = h[n - 1] \o ss[n]
    BY <1>3, <2>2, <2>3
  <2>8. g[n] = g[n - 1] \o ss[n]
    BY <2>4 DEF Joins
  <2> QED
    BY <2>2, <2>6, <2>7, <2>8
<1>6. Len(ss) \in 1 .. Len(ss)
  BY <1>1
<1> QED
  BY <1>4, <1>5, <1>6

LEMMA FlattenNone == FlattenSeq(<<>>) = <<>>
<1>1. Len(<<>>) = 0
  OBVIOUS
<1> QED
  BY <1>1 DEF FlattenSeq

LEMMA FlattenTyped ==
  ASSUME NEW T, NEW ss \in Seq(Seq(T))
  PROVE  FlattenSeq(ss) \in Seq(T)
<1>1. CASE ss = <<>>
  BY <1>1, FlattenNone, EmptySeq
<1>2. CASE ss # <<>>
  <2>1. PICK g \in [1 .. Len(ss) -> Seq(T)] : Joins(ss, g)
    BY <1>2, JoinsExist
  <2>2. FlattenSeq(ss) = g[Len(ss)]
    BY <1>2, <2>1, JoinedIs
  <2>3. Len(ss) \in Nat \ {0}
    BY <1>2, EmptySeq
  <2>4. Len(ss) \in 1 .. Len(ss)
    BY <2>3
  <2> QED
    BY <2>2, <2>4
<1> QED
  BY <1>1, <1>2

LEMMA FlattenOne ==
  ASSUME NEW T, NEW x \in Seq(T)
  PROVE  FlattenSeq(<<x>>) = x
<1>1. <<x>> \in Seq(Seq(T)) /\ <<x>> # <<>> /\ Len(<<x>>) = 1 /\ <<x>>[1] = x
  OBVIOUS
<1> DEFINE g == [i \in 1 .. 1 |-> x]
<1>2. g \in [1 .. Len(<<x>>) -> Seq(T)] /\ g[1] = x
  BY <1>1
<1>3. Joins(<<x>>, g)
  BY <1>1, <1>2 DEF Joins
<1> HIDE DEF g
<1> QED
  BY <1>1, <1>2, <1>3, JoinedIs

LEMMA FlattenAllEmpty ==
  ASSUME NEW T, NEW ss \in Seq(Seq(T)), \A i \in 1 .. Len(ss) : ss[i] = <<>>
  PROVE  FlattenSeq(ss) = <<>>
<1>1. CASE ss = <<>>
  BY <1>1, FlattenNone
<1>2. CASE ss # <<>>
  <2>1. Len(ss) \in Nat \ {0}
    BY <1>2, EmptySeq
  <2>2. 1 \in 1 .. Len(ss) /\ Len(ss) \in 1 .. Len(ss)
        /\ \A i \in 2 .. Len(ss) : i \in 1 .. Len(ss) /\ i - 1 \in 1 .. Len(ss)
    BY <2>1
  <2> DEFINE g == [i \in 1 .. Len(ss) |-> <<>>]
  <2>3. <<>> \in Seq(T) /\ <<>> \o <<>> = <<>>
    BY EmptySeq, ConcatEmptySeq
  <2>4. g \in [1 .. Len(ss) -> Seq(T)] /\ \A i \in 1 .. Len(ss) : g[i] = <<>>
    BY <2>3
  <2> HIDE DEF g
  <2>5. Joins(ss, g)
    <3>1. g[1] = ss[1]
      BY <2>2, <2>4
    <3>2. ASSUME NEW i \in 2 .. Len(ss) PROVE g[i] = g[i - 1] \o ss[i]
      <4>1. g[i] = <<>> /\ g[i - 1] = <<>> /\ ss[i] = <<>>
        BY <2>2, <2>4
      <4> QED
        BY <2>3, <4>1
    <3> QED
      BY <3>1, <3>2 DEF Joins
  <2> QED
    BY <1>2, <2>2, <2>4, <2>5, JoinedIs
<1> QED
  BY <1>1, <1>2

LEMMA FlattenConcat ==
  ASSUME NEW T, NEW a \in Seq(Seq(T)), NEW b \in Seq(Seq(T))
  PROVE  FlattenSeq(a \o b) = FlattenSeq(a) \o FlattenSeq(b)
<1>0. FlattenSeq(a) \in Seq(T) /\ FlattenSeq(b) \in Seq(T)
  BY FlattenTyped
<1>1. CASE a = <<>>
  <2>1. a \o b = b
    BY <1>1, ConcatEmptySeq
  <2> QED
    BY <1>0, <1>1, <2>1, FlattenNone, ConcatEmptySeq
<1>2. CASE b = <<>>
  <2>1. a \o b = a
    BY <1>2, ConcatEmptySeq
  <2> QED
    BY <1>0, <1>2, <2>1, FlattenNone, ConcatEmptySeq
<1>3. CASE a # <<>> /\ b # <<>>
  <2>1. Len(a) \in Nat \ {0} /\ Len(b) \in Nat \ {0}
    BY <1>3, EmptySeq
  <2>2. PICK ga \in [1 .. Len(a) -> Seq(T)] : Joins(a, ga)
    BY <1>3, JoinsExist
  <2>3. PICK gb \in [1 .. Len(b) -> Seq(T)] : Joins(b, gb)
    BY <1>3, JoinsExist
  <2>4. FlattenSeq(a) = ga[Len(a)] /\ FlattenSeq(b) = gb[Len(b)]
    BY <1>3, <2>2, <2>3, JoinedIs
  <2> DEFINE c == a \o b
             f == FlattenSeq(a)
             g == [i \in 1 .. Len(a) + Len(b) |-> IF i <= Len(a) THEN ga[i] ELSE f \o gb[i - Len(a)]]
  <2>5. c \in Seq(Seq(T)) /\ Len(c) = Len(a) + Len(b)
        /\ \A i \in 1 .. Len(a) + Len(b) : c[i] = IF i <= Len(a) THEN a[i] ELSE b[i - Len(a)]
    BY ConcatProperties
  <2>6. c # <<>>
    <3>1. Len(c) > 0
      BY <2>1, <2>5
    <3> QED
      BY <3>1, EmptySeq
  <2> HIDE DEF c, f
  <2>7. f \in Seq(T) /\ f = ga[Len(a)]
    BY <1>0, <2>4 DEF f
  <2>8. g \in [1 .. Len(c) -> Seq(T)]
    <3>1. ASSUME NEW i \in 1 .. Len(a) + Len(b)
          PROVE  (IF i <= Len(a) THEN ga[i] ELSE f \o gb[i - Len(a)]) \in Seq(T)
      <4>1. CASE i <= Len(a)
        <5>1. i \in 1 .. Len(a)
          BY <2>1, <4>1
        <5> QED
          BY <4>1, <5>1
      <4>2. CASE ~(i <= Len(a))
        <5>1. i - Len(a) \in 1 .. Len(b)
          BY <2>1, <4>2
        <5>2. gb[i - Len(a)] \in Seq(T)
          BY <5>1
        <5>3. f \o gb[i - Len(a)] \in Seq(T)
          BY <2>7, <5>2, ConcatProperties
        <5> QED
          BY <4>2, <5>3
      <4> QED
        BY <4>1, <4>2
    <3> QED
      BY <3>1, <2>5
  <2>9. g[1] = c[1]
    <3>1. 1 \in 1 .. Len(a) + Len(b) /\ 1 <= Len(a)
      BY <2>1
    <3> QED
      BY <3>1, <2>2, <2>5 DEF Joins
  <2>10. ASSUME NEW i \in 2 .. Len(c) PROVE g[i] = g[i - 1] \o c[i]
    <3>1. i \in 1 .. Len(a) + Len(b) /\ i - 1 \in 1 .. Len(a) + Len(b)
      BY <2>1, <2>5, SMTT(30)
    <3>2. CASE i <= Len(a)
      <4>1. i \in 2 .. Len(a) /\ i - 1 <= Len(a)
        BY <2>1, <3>1, <3>2
      <4>2. ga[i] = ga[i - 1] \o a[i]
        BY <2>2, <4>1 DEF Joins
      <4> QED
        BY <2>5, <3>1, <3>2, <4>1, <4>2
    <3>3. CASE i = Len(a) + 1
      <4>1. i - 1 = Len(a) /\ i - Len(a) = 1 /\ ~(i <= Len(a)) /\ i - 1 <= Len(a)
        BY <2>1, <3>3
      <4>2. g[i] = f \o gb[1] /\ g[i - 1] = ga[Len(a)] /\ c[i] = b[1]
        BY <2>5, <3>1, <4>1
      <4>3. gb[1] = b[1]
        BY <2>3 DEF Joins
      <4> QED
        BY <2>7, <4>2, <4>3
    <3>4. CASE i > Len(a) + 1
      <4>1. i - Len(a) \in 2 .. Len(b) /\ ~(i <= Len(a)) /\ ~(i - 1 <= Len(a))
            /\ (i - 1) - Len(a) = (i - Len(a)) - 1 /\ (i - Len(a)) - 1 \in 1 .. Len(b)
            /\ i - Len(a) \in 1 .. Len(b)
        BY <2>1, <3>1, <3>4
      <4>2. gb[i - Len(a)] = gb[(i - Len(a)) - 1] \o b[i - Len(a)]
        BY <2>3, <4>1 DEF Joins
      <4>3. g[i] = f \o gb[i - Len(a)] /\ g[i - 1] = f \o gb[(i - Len(a)) - 1]
            /\ c[i] = b[i - Len(a)]
        BY <2>5, <3>1, <4>1
      <4>4. gb[(i - Len(a)) - 1] \in Seq(T) /\ b[i - Len(a)] \in Seq(T)
        BY <4>1, ElementOfSeq
      <4>5. (f \o gb[(i - Len(a)) - 1]) \o b[i - Len(a)] = f \o (gb[(i - Len(a)) - 1] \o b[i - Len(a)])
        <5> DEFINE x == gb[(i - Len(a)) - 1]  y == b[i - Len(a)]
        <5>1. f \in Seq(T) /\ x \in Seq(T) /\ y \in Seq(T)
          BY <2>7, <4>4
        <5> HIDE DEF x, y
        <5>2. (f \o x) \o y = f \o (x \o y)
          BY <5>1, ConcatAssociative, SMTT(30)
        <5> QED
          BY <5>2 DEF x, y
      <4> QED
        BY <4>2, <4>3, <4>5
    <3>5. i <= Len(a) \/ i = Len(a) + 1 \/ i > Len(a) + 1
      BY <2>1, <3>1
    <3> QED
      BY <3>2, <3>3, <3>4, <3>5
  <2>11. Joins(c, g)
    <3> HIDE DEF g
    <3> QED
      BY <2>9, <2>10 DEF Joins
  <2>12. g[Len(c)] = f \o gb[Len(b)]
    <3>1. Len(c) \in 1 .. Len(a) + Len(b) /\ ~(Len(c) <= Len(a)) /\ Len(c) - Len(a) = Len(b)
      BY <2>1, <2>5
    <3> QED
      BY <3>1
  <2>13. FlattenSeq(c) = g[Len(c)]
    <3> HIDE DEF g
    <3> QED
      BY <2>5, <2>6, <2>8, <2>11, JoinedIs
  <2> QED
    BY <2>4, <2>12, <2>13 DEF c, f
<1> QED
  BY <1>1, <1>2, <1>3

LEMMA SumIsMore ==
  ASSUME NEW x \in Nat, NEW y \in Nat, NEW z \in Nat, x = y + z
  PROVE  x >= y /\ x >= z
OBVIOUS

\* No part is longer than the whole.
LEMMA FlattenLonger ==
  ASSUME NEW T, NEW ss \in Seq(Seq(T)), NEW k \in 1 .. Len(ss)
  PROVE  Len(ss[k]) <= Len(FlattenSeq(ss))
<1>1. Len(ss) \in Nat /\ ss # <<>>
  BY EmptySeq
<1>2. PICK g \in [1 .. Len(ss) -> Seq(T)] : Joins(ss, g)
  BY <1>1, JoinsExist
<1>3. \A i \in 1 .. Len(ss) : ss[i] \in Seq(T) /\ Len(ss[i]) \in Nat /\ Len(g[i]) \in Nat
  BY ElementOfSeq, LenProperties
<1>4. ASSUME NEW i \in 2 .. Len(ss)
      PROVE  i \in 1 .. Len(ss) /\ i - 1 \in 1 .. Len(ss) /\ Len(g[i]) = Len(g[i - 1]) + Len(ss[i])
  <2>1. i \in 1 .. Len(ss) /\ i - 1 \in 1 .. Len(ss)
    BY <1>1
  <2>2. g[i] = g[i - 1] \o ss[i] /\ g[i - 1] \in Seq(T) /\ ss[i] \in Seq(T)
    BY <2>1, <1>2, <1>3 DEF Joins
  <2> QED
    BY <2>1, <2>2, ConcatProperties
<1> DEFINE B == {i \in k .. Len(ss) : Len(g[i]) < Len(ss[k])}
<1>5. B = {}
  <2> SUFFICES ASSUME B # {} PROVE FALSE
    OBVIOUS
  <2>1. PICK n \in B : \A m \in B : n <= m
    <3>1. B \in SUBSET Nat
      BY <1>1
    <3> HIDE DEF B
    <3> QED
      BY <3>1, LeastNumber
  <2>2. n \in k .. Len(ss) /\ Len(g[n]) < Len(ss[k])
    BY <2>1
  <2>3. Len(g[k]) >= Len(ss[k])
    <3>1. CASE k = 1
      BY <3>1, <1>2, <1>3 DEF Joins
    <3>2. CASE k # 1
      <4>1. k \in 2 .. Len(ss)
        BY <1>1, <3>2
      <4>2. k \in 1 .. Len(ss) /\ k - 1 \in 1 .. Len(ss) /\ Len(g[k]) = Len(g[k - 1]) + Len(ss[k])
        BY <4>1, <1>4
      <4>3. Len(g[k]) \in Nat /\ Len(g[k - 1]) \in Nat /\ Len(ss[k]) \in Nat
        BY <4>2, <1>3
      <4> QED
        BY <4>2, <4>3, SumIsMore
    <3> QED
      BY <3>1, <3>2
  <2>4. n # k
    BY <2>2, <2>3, <1>3
  <2>5. n - 1 \in k .. Len(ss) /\ n \in 2 .. Len(ss) /\ ~(n <= n - 1)
    BY <1>1, <2>2, <2>4
  <2>6. n - 1 \notin B
    <3> HIDE DEF B
    <3> QED
      BY <2>1, <2>5
  <2>7. ~(Len(g[n - 1]) < Len(ss[k]))
    BY <2>5, <2>6
  <2>8. n \in 1 .. Len(ss) /\ n - 1 \in 1 .. Len(ss) /\ Len(g[n]) = Len(g[n - 1]) + Len(ss[n])
    BY <2>5, <1>4
  <2>9. /\ Len(g[n]) \in Nat /\ Len(g[n - 1]) \in Nat /\ Len(ss[n]) \in Nat
        /\ Len(ss[k]) \in Nat
    BY <2>8, <1>3
  <2>10. Len(g[n]) >= Len(g[n - 1])
    BY <2>8, <2>9, SumIsMore
  <2> QED
    BY <2>2, <2>7, <2>9, <2>10
<1>6. Len(ss) \in k .. Len(ss) /\ Len(ss) \in 1 .. Len(ss)
  BY <1>1
<1>7. ~(Len(g[Len(ss)]) < Len(ss[k]))
  BY <1>5, <1>6
<1>8. FlattenSeq(ss) = g[Len(ss)]
  BY <1>1, <1>2, JoinedIs
<1> QED
  BY <1>3, <1>6, <1>7, <1>8
-----------------------------------------------------------------------------
(* The history in front of an answer. *)

\* An answer cannot begin like the history: that is empty or has a token of its own.
HistoryApart == HistoryText = <<>> \/ \E i \in DOMAIN HistoryText : HistoryText[i] \notin Tokens

LEMMA Products ==
  ASSUME NEW n \in Nat, NEW l \in Nat
  PROVE  /\ n * l \in Nat /\ 0 * l = 0 /\ 1 * l = l /\ n * 0 = 0
         /\ n >= 1 => n * l >= l
         /\ n >= 2 => n * l >= l + l
OBVIOUS

LEMMA Remainders ==
  ASSUME NEW l \in Nat, l > 0, NEW p \in 1 .. l
  PROVE  ((p - 1) % l) + 1 = p /\ (((l + p) - 1) % l) + 1 = p
OBVIOUS

LEMMA AfterNothing ==
  ASSUME NEW s \in Seq(STRING)
  PROVE  After(s, 0) = s
<1>1. 0 + 1 = 1
  OBVIOUS
<1> QED
  BY <1>1, SubSeqFull DEF After

LEMMA HistoryTyped ==
  /\ HistoryText \in Seq(STRING)
  /\ Len(HistoryText) \in Nat
  /\ DOMAIN HistoryText = 1 .. Len(HistoryText)
<1>1. History \in Seq(Seq(STRING))
  BY TextAssumption DEF TextAssumption
<1>2. HistoryText \in Seq(STRING)
  BY <1>1, FlattenTyped DEF HistoryText
<1> QED
  BY <1>2, LenProperties

LEMMA TimesAre ==
  ASSUME NEW n \in Nat
  PROVE  /\ Times(HistoryText, n) \in Seq(STRING)
         /\ Len(Times(HistoryText, n)) = n * Len(HistoryText)
         /\ \A i \in 1 .. n * Len(HistoryText) :
                Times(HistoryText, n)[i] = HistoryText[((i - 1) % Len(HistoryText)) + 1]
<1> DEFINE h == HistoryText  l == Len(h)  t == Times(h, n)
<1>1. h \in Seq(STRING) /\ l \in Nat /\ n * l \in Nat
  BY HistoryTyped, Products
<1>2. t = [i \in 1 .. n * l |-> h[((i - 1) % l) + 1]]
  BY DEF Times
<1>3. ASSUME NEW i \in 1 .. n * l PROVE h[((i - 1) % l) + 1] \in STRING
  <2>1. l # 0
    <3>1. l = 0 => n * l = 0
      BY Products
    <3> QED
      BY <1>1, <3>1
  <2>2. (i - 1) % l \in 0 .. l - 1
    BY <1>1, <2>1
  <2>3. ((i - 1) % l) + 1 \in 1 .. l
    BY <1>1, <2>2
  <2> QED
    BY <1>1, <2>3, ElementOfSeq
<1> HIDE DEF h, l, t
<1>4. t \in [1 .. n * l -> STRING]
  BY <1>2, <1>3
<1>5. t \in Seq(STRING) /\ Len(t) = n * l
  BY <1>1, <1>4, SeqDef, LenProperties
<1> QED
  BY <1>2, <1>5 DEF h, l, t

LEMMA UnprefixedIs ==
  ASSUME NEW s \in Seq(STRING)
  PROVE  \E n \in 0 .. Len(s) :
            /\ Unprefixed(s) = After(s, n * Len(HistoryText))
            /\ IsPrefix(Times(HistoryText, n), s)
            /\ \A m \in 0 .. Len(s) : IsPrefix(Times(HistoryText, m), s) => m <= n
<1> DEFINE B == {n \in 0 .. Len(s) : IsPrefix(Times(HistoryText, n), s)}
<1>1. Len(s) \in Nat
  BY LenProperties
<1>2. 0 \in B
  <2>1. 0 \in 0 .. Len(s) /\ 0 \in Nat
    BY <1>1
  <2>2. /\ Times(HistoryText, 0) \in Seq(STRING)
        /\ Len(Times(HistoryText, 0)) = 0
    <3>1. Len(HistoryText) \in Nat /\ 0 * Len(HistoryText) = 0
      BY HistoryTyped, Products
    <3> QED
      BY <2>1, <3>1, TimesAre
  <2>3. \A i \in 1 .. Len(Times(HistoryText, 0)) : Times(HistoryText, 0)[i] = s[i]
    BY <2>2
  <2>4. IsPrefix(Times(HistoryText, 0), s)
    BY <1>1, <2>2, <2>3, PrefixIs
  <2> QED
    BY <2>1, <2>4
<1>3. B \in SUBSET (0 .. Len(s)) /\ B # {}
  BY <1>2
<1>4. Max(B) \in B /\ \A m \in B : Max(B) >= m
  <2> HIDE DEF B
  <2> QED
    BY <1>1, <1>3, GreatestIs
<1>5. Unprefixed(s) = After(s, Max(B) * Len(HistoryText))
  BY DEF Unprefixed
<1>6. Max(B) \in 0 .. Len(s) /\ IsPrefix(Times(HistoryText, Max(B)), s)
  BY <1>4
<1>7. \A m \in 0 .. Len(s) : IsPrefix(Times(HistoryText, m), s) => m <= Max(B)
  <2>1. \A m \in 0 .. Len(s) : IsPrefix(Times(HistoryText, m), s) => m \in B
    OBVIOUS
  <2> HIDE DEF B
  <2>2. \A m \in 0 .. Len(s) : m <= Max(B) <=> Max(B) >= m
    BY <1>1, <1>6
  <2> QED
    BY <1>4, <2>1, <2>2
<1> HIDE DEF B
<1> QED
  BY <1>5, <1>6, <1>7

\* What follows the history is what is left.
LEMMA AnswerIsLeft ==
  ASSUME HistoryApart, NEW s \in Seq(Tokens)
  PROVE  Unprefixed(s) = s /\ Unprefixed(HistoryText \o s) = s
<1> DEFINE h == HistoryText  l == Len(h)  g == h \o s
<1>1. s \in Seq(STRING) /\ Len(s) \in Nat /\ \A i \in 1 .. Len(s) : s[i] \in Tokens
  BY TextsAreStrings, LenProperties, ElementOfSeq
<1>2. h \in Seq(STRING) /\ l \in Nat /\ DOMAIN h = 1 .. l
  BY HistoryTyped
<1>3. /\ g \in Seq(STRING) /\ Len(g) = l + Len(s)
      /\ \A i \in 1 .. l + Len(s) : g[i] = IF i <= l THEN h[i] ELSE s[i - l]
  BY <1>1, <1>2, ConcatProperties
<1>4. PICK n \in 0 .. Len(s) : Unprefixed(s) = After(s, n * l) /\ IsPrefix(Times(h, n), s)
  BY <1>1, UnprefixedIs
<1>5. PICK m \in 0 .. Len(g) :
        /\ Unprefixed(g) = After(g, m * l) /\ IsPrefix(Times(h, m), g)
        /\ \A k \in 0 .. Len(g) : IsPrefix(Times(h, k), g) => k <= m
  BY <1>3, UnprefixedIs
<1>6. n \in Nat /\ m \in Nat
  BY <1>1, <1>2, <1>3
<1>7. CASE l = 0
  <2>1. n * l = 0 /\ m * l = 0
    BY <1>6, <1>7, Products
  <2>2. g = s
    <3>1. \A i \in 1 .. Len(g) : g[i] = s[i]
      BY <1>1, <1>3, <1>7
    <3>2. Len(g) = Len(s)
      BY <1>1, <1>3, <1>7
    <3> QED
      BY <1>1, <1>3, <3>1, <3>2, SeqEqual
  <2> QED
    BY <1>1, <1>4, <1>5, <2>1, <2>2, AfterNothing
<1>8. CASE l # 0
  <2>1. PICK p \in 1 .. l : h[p] \notin Tokens
    <3>1. h # <<>>
      BY <1>2, <1>8, EmptySeq
    <3> QED
      BY <1>2, <3>1 DEF HistoryApart
  <2>2. l > 0 /\ p \in Int /\ ((p - 1) % l) + 1 = p /\ (((l + p) - 1) % l) + 1 = p
    <3>1. l > 0
      BY <1>2, <1>8
    <3> QED
      BY <1>2, <3>1, Remainders
  <2> HIDE DEF h, l, g
  <2>3. n = 0
    <3> SUFFICES ASSUME n >= 1 PROVE FALSE
      BY <1>6
    <3>1. n * l >= l /\ n * l \in Nat
      BY <1>2, <1>6, Products
    <3>2. /\ Times(h, n) \in Seq(STRING) /\ Len(Times(h, n)) = n * l
          /\ \A i \in 1 .. n * l : Times(h, n)[i] = h[((i - 1) % l) + 1]
      BY <1>6, TimesAre DEF h, l
    <3>3. n * l <= Len(s) /\ \A i \in 1 .. n * l : Times(h, n)[i] = s[i]
      BY <1>1, <1>4, <3>2, PrefixIs
    <3>4. p \in 1 .. n * l /\ p \in 1 .. Len(s)
      BY <1>1, <1>2, <3>1, <3>3
    <3>5. s[p] = h[p]
      BY <2>2, <3>2, <3>3, <3>4
    <3> QED
      BY <1>1, <2>1, <3>4, <3>5
  <2>4. m >= 1
    <3>1. /\ Times(h, 1) \in Seq(STRING) /\ Len(Times(h, 1)) = l
          /\ \A i \in 1 .. l : Times(h, 1)[i] = h[((i - 1) % l) + 1]
      <4>1. 1 * l = l /\ 1 \in Nat
        BY <1>2, Products
      <4> QED
        BY <4>1, TimesAre DEF h, l
    <3>2. ASSUME NEW i \in 1 .. l PROVE Times(h, 1)[i] = g[i]
      <4>1. ((i - 1) % l) + 1 = i
        BY <1>2, <2>2, Remainders
      <4>2. g[i] = h[i]
        BY <1>1, <1>2, <1>3
      <4> QED
        BY <3>1, <4>1, <4>2
    <3>3. l <= Len(g) /\ 1 \in 0 .. Len(g)
      <4>1. l > 0 /\ Len(g) = l + Len(s)
        BY <1>3, <2>2
      <4> QED
        BY <1>1, <1>2, <4>1
    <3>4. IsPrefix(Times(h, 1), g)
      BY <1>3, <3>1, <3>2, <3>3, PrefixIs
    <3>5. 1 <= m
      BY <1>5, <3>3, <3>4
    <3> QED
      BY <1>6, <3>5
  <2>5. ~(m >= 2)
    <3> SUFFICES ASSUME m >= 2 PROVE FALSE
      OBVIOUS
    <3>1. m * l >= l + l /\ m * l \in Nat
      BY <1>2, <1>6, Products
    <3>2. /\ Times(h, m) \in Seq(STRING) /\ Len(Times(h, m)) = m * l
          /\ \A i \in 1 .. m * l : Times(h, m)[i] = h[((i - 1) % l) + 1]
      BY <1>6, TimesAre DEF h, l
    <3>3. m * l <= Len(g) /\ \A i \in 1 .. m * l : Times(h, m)[i] = g[i]
      BY <1>3, <1>5, <3>2, PrefixIs
    <3>4. l + p \in 1 .. m * l /\ l + p \in 1 .. l + Len(s) /\ p \in 1 .. Len(s)
          /\ ~(l + p <= l) /\ (l + p) - l = p
      <4>1. p >= 1 /\ p <= l
        BY <1>2
      <4>2. m * l <= l + Len(s)
        BY <1>3, <3>3
      <4> QED
        BY <1>1, <1>2, <2>2, <3>1, <4>1, <4>2, SMTT(30)
    <3>5. g[l + p] = s[p]
      BY <1>3, <3>4
    <3>6. Times(h, m)[l + p] = h[p]
      <4> DEFINE q == l + p
      <4>1. q \in 1 .. m * l /\ ((q - 1) % l) + 1 = p
        <5>1. q \in 1 .. m * l
          BY <3>4
        <5>2. ((q - 1) % l) + 1 = p
          BY <2>2, Zenon
        <5> QED
          BY <5>1, <5>2
      <4> HIDE DEF q
      <4>2. Times(h, m)[q] = h[((q - 1) % l) + 1]
        BY <3>2, <4>1
      <4>3. Times(h, m)[q] = h[p]
        BY <4>1, <4>2
      <4> QED
        BY <4>3 DEF q
    <3>7. s[p] = h[p]
      BY <3>3, <3>4, <3>5, <3>6
    <3> QED
      BY <1>1, <2>1, <3>4, <3>7
  <2>6. m = 1
    BY <1>6, <2>4, <2>5
  <2>7. n * l = 0 /\ m * l = l
    BY <1>2, <2>3, <2>6, Products
  <2>8. After(g, l) = s
    BY <1>1, <1>2, PrefixOfMore DEF g, l
  <2> QED
    BY <1>1, <1>4, <1>5, <2>7, <2>8, AfterNothing DEF g, h
<1> QED
  BY <1>7, <1>8

\* An earlier message is left as it is or goes away.
LEMMA EchoGoes ==
  ASSUME NEW k \in 1 .. Len(History)
  PROVE  /\ History[k] \in Seq(STRING)
         /\ Unprefixed(History[k]) = History[k] \/ Unprefixed(History[k]) = <<>>
<1> DEFINE s == History[k]  l == Len(HistoryText)
<1>1. History \in Seq(Seq(STRING))
  BY TextAssumption DEF TextAssumption
<1>2. s \in Seq(STRING) /\ Len(s) \in Nat /\ l \in Nat /\ Len(s) <= l
  BY <1>1, ElementOfSeq, LenProperties, HistoryTyped, FlattenLonger DEF HistoryText
<1>3. PICK n \in 0 .. Len(s) : Unprefixed(s) = After(s, n * l)
  BY <1>2, UnprefixedIs
<1>4. n \in Nat /\ n * l \in Nat
  BY <1>2, Products
<1>5. CASE n = 0
  <2>1. n * l = 0
    BY <1>2, <1>5, Products
  <2> QED
    BY <1>2, <1>3, <2>1, AfterNothing
<1>6. CASE n # 0
  <2>1. n >= 1
    BY <1>4, <1>6
  <2>2. n * l >= l
    BY <1>2, <1>4, <2>1, Products
  <2>3. n * l >= Len(s)
    BY <1>2, <1>4, <2>2
  <2> QED
    BY <1>2, <1>3, <1>4, <2>3, AfterIs
<1> QED
  BY <1>2, <1>5, <1>6
-----------------------------------------------------------------------------
(* Events and what they say. *)
Events == [kind : EventKind, index : Nat, text : Seq(STRING)]

LEMMA SaidIs ==
  ASSUME NEW a \in Seq(Events)
  PROVE  [e \in DOMAIN a |-> a[e].text] \in Seq(Seq(STRING))
         /\ Len([e \in DOMAIN a |-> a[e].text]) = Len(a)
         /\ Said(a) \in Seq(STRING)
<1> DEFINE x == [e \in DOMAIN a |-> a[e].text]
<1>1. DOMAIN a = 1 .. Len(a) /\ Len(a) \in Nat /\ \A e \in 1 .. Len(a) : a[e] \in Events
  BY LenProperties, ElementOfSeq
<1>2. x \in [1 .. Len(a) -> Seq(STRING)]
  BY <1>1 DEF Events
<1>3. x \in Seq(Seq(STRING)) /\ Len(x) = Len(a)
  <2> HIDE DEF x
  <2> QED
    BY <1>1, <1>2, SeqDef, LenProperties
<1>4. Said(a) = FlattenSeq(x)
  BY DEF Said
<1>5. FlattenSeq(x) \in Seq(STRING)
  <2> HIDE DEF x
  <2> QED
    BY <1>3, FlattenTyped
<1> QED
  BY <1>3, <1>4, <1>5

LEMMA SaidConcat ==
  ASSUME NEW a \in Seq(Events), NEW b \in Seq(Events)
  PROVE  Said(a \o b) = Said(a) \o Said(b)
<1> DEFINE c == a \o b
           x == [e \in DOMAIN a |-> a[e].text]
           y == [e \in DOMAIN b |-> b[e].text]
           z == [e \in DOMAIN c |-> c[e].text]
<1>1. /\ DOMAIN a = 1 .. Len(a) /\ Len(a) \in Nat
      /\ DOMAIN b = 1 .. Len(b) /\ Len(b) \in Nat
  BY LenProperties
<1>2. /\ c \in Seq(Events) /\ Len(c) = Len(a) + Len(b) /\ DOMAIN c = 1 .. Len(a) + Len(b)
      /\ \A i \in 1 .. Len(a) + Len(b) : c[i] = IF i <= Len(a) THEN a[i] ELSE b[i - Len(a)]
  BY ConcatProperties, LenProperties
<1>3. /\ x \in Seq(Seq(STRING)) /\ Len(x) = Len(a)
      /\ y \in Seq(Seq(STRING)) /\ Len(y) = Len(b)
  BY SaidIs
<1>4. z \in Seq(Seq(STRING)) /\ Len(z) = Len(a) + Len(b)
  <2> HIDE DEF c
  <2> QED
    BY <1>2, SaidIs
<1>5. /\ x \o y \in Seq(Seq(STRING)) /\ Len(x \o y) = Len(a) + Len(b)
      /\ \A i \in 1 .. Len(a) + Len(b) : (x \o y)[i] = IF i <= Len(a) THEN x[i] ELSE y[i - Len(a)]
  <2> HIDE DEF x, y
  <2> QED
    <3>1. /\ x \o y \in Seq(Seq(STRING)) /\ Len(x \o y) = Len(x) + Len(y)
          /\ \A i \in 1 .. Len(x) + Len(y) : (x \o y)[i] = IF i <= Len(x) THEN x[i] ELSE y[i - Len(x)]
      BY <1>3, ConcatProperties
    <3> QED
      BY <1>3, <3>1
<1>6. ASSUME NEW i \in 1 .. Len(a) + Len(b) PROVE z[i] = (x \o y)[i]
  <2>1. z[i] = c[i].text
    <3> HIDE DEF c
    <3> QED
      BY <1>2
  <2>2. CASE i <= Len(a)
    <3>1. i \in DOMAIN a
      BY <1>1, <2>2
    <3>2. x[i] = a[i].text /\ c[i] = a[i]
      BY <1>2, <2>2, <3>1
    <3> HIDE DEF c, x, y, z
    <3> QED
      BY <1>5, <2>1, <2>2, <3>2
  <2>3. CASE ~(i <= Len(a))
    <3>1. i - Len(a) \in DOMAIN b
      BY <1>1, <2>3
    <3>2. y[i - Len(a)] = b[i - Len(a)].text /\ c[i] = b[i - Len(a)]
      BY <1>2, <2>3, <3>1
    <3> HIDE DEF c, x, y, z
    <3> QED
      BY <1>5, <2>1, <2>3, <3>2
  <2> QED
    BY <2>2, <2>3
<1> HIDE DEF x, y, z, c
<1>7. z = x \o y
  BY <1>4, <1>5, <1>6, SeqEqual
<1>8. FlattenSeq(x \o y) = FlattenSeq(x) \o FlattenSeq(y)
  BY <1>3, FlattenConcat
<1> QED
  BY <1>7, <1>8 DEF Said, x, y, z, c

LEMMA SaidNone == Said(<<>>) = <<>>
<1> DEFINE x == [e \in DOMAIN <<>> |-> <<>>[e].text]
<1>1. <<>> \in Seq(Events) /\ Len(<<>>) = 0
  OBVIOUS
<1>2. x \in Seq(Seq(STRING)) /\ Len(x) = 0
  BY <1>1, SaidIs
<1> HIDE DEF x
<1>3. x = <<>>
  BY <1>2, EmptySeq
<1> QED
  BY <1>3, FlattenNone DEF Said, x

LEMMA SaidOne ==
  ASSUME NEW k \in EventKind, NEW i \in Nat, NEW s \in Seq(STRING)
  PROVE  /\ Event(k, i, s) \in Seq(Events) /\ Len(Event(k, i, s)) = 1
         /\ Event(k, i, s)[1] = [kind |-> k, index |-> i, text |-> s]
         /\ Said(Event(k, i, s)) = s
<1> DEFINE e == [kind |-> k, index |-> i, text |-> s]
           a == <<e>>
           x == [n \in DOMAIN a |-> a[n].text]
<1>1. e \in Events /\ e.text = s
  BY DEF Events
<1>2. a \in Seq(Events) /\ Len(a) = 1 /\ a[1] = e
  BY <1>1
<1>3. x \in Seq(Seq(STRING)) /\ Len(x) = 1 /\ x[1] = s
  <2>1. x \in Seq(Seq(STRING)) /\ Len(x) = 1
    <3> HIDE DEF a
    <3> QED
      BY <1>2, SaidIs
  <2>2. 1 \in DOMAIN a
    BY <1>2
  <2> QED
    BY <1>1, <1>2, <2>1, <2>2
<1>4. FlattenSeq(x) = s
  <2> HIDE DEF x
  <2>1. x = <<s>>
    <3>1. <<s>> \in Seq(Seq(STRING)) /\ Len(<<s>>) = 1 /\ <<s>>[1] = s
      OBVIOUS
    <3>2. \A n \in 1 .. Len(x) : x[n] = <<s>>[n]
      BY <1>3, <3>1
    <3> QED
      BY <1>3, <3>1, <3>2, SeqEqual
  <2> QED
    BY <2>1, FlattenOne
<1> QED
  BY <1>2, <1>4 DEF Said, Event

LEMMA SaidNothing ==
  ASSUME NEW a \in Seq(Events), \A i \in 1 .. Len(a) : a[i].text = <<>>
  PROVE  Said(a) = <<>>
<1> DEFINE x == [e \in DOMAIN a |-> a[e].text]
<1>1. x \in Seq(Seq(STRING)) /\ Len(x) = Len(a)
  BY SaidIs
<1>2. \A i \in 1 .. Len(a) : x[i] = <<>>
  BY LenProperties
<1> HIDE DEF x
<1> QED
  BY <1>1, <1>2, FlattenAllEmpty DEF Said, x

\* Two events after one another.
LEMMA Pairs ==
  ASSUME NEW a \in Seq(Events), NEW b \in Seq(Events), Len(a) = 1, Len(b) = 1
  PROVE  /\ a \o b \in Seq(Events) /\ Len(a \o b) = 2
         /\ (a \o b)[1] = a[1] /\ (a \o b)[2] = b[1]
<1>1. /\ a \o b \in Seq(Events) /\ Len(a \o b) = 1 + 1
      /\ \A i \in 1 .. 1 + 1 : (a \o b)[i] = IF i <= 1 THEN a[i] ELSE b[i - 1]
  BY ConcatProperties
<1>2. 1 \in 1 .. 1 + 1 /\ 2 \in 1 .. 1 + 1 /\ 1 <= 1 /\ ~(2 <= 1) /\ 2 - 1 = 1 /\ 1 + 1 = 2
  OBVIOUS
<1> QED
  BY <1>1, <1>2

LEMMA KindsAre ==
  /\ "begin" \in EventKind /\ "start" \in EventKind /\ "delta" \in EventKind
  /\ "call" \in EventKind /\ "stop" \in EventKind /\ "end" \in EventKind
  /\ 0 \in Nat /\ <<>> \in Seq(STRING)
BY EmptySeq DEF EventKind

LEMMA OpeningIs ==
  ASSUME format \in Formats
  PROVE  /\ Opening \in Seq(Events) /\ Said(Opening) = <<>>
         /\ Len(Opening) = IF format = "chat" THEN 0 ELSE IF format = "tools" THEN 1 ELSE 2
         /\ format # "chat" => Opening[1] = [kind |-> "begin", index |-> 0, text |-> <<>>]
         /\ format \notin {"chat", "tools"} =>
                Opening[2] = [kind |-> "start", index |-> 0, text |-> <<>>]
<1> DEFINE b == Event("begin", 0, <<>>)  s == Event("start", 0, <<>>)
<1>1. /\ b \in Seq(Events) /\ Len(b) = 1 /\ b[1] = [kind |-> "begin", index |-> 0, text |-> <<>>]
      /\ s \in Seq(Events) /\ Len(s) = 1 /\ s[1] = [kind |-> "start", index |-> 0, text |-> <<>>]
      /\ Said(b) = <<>> /\ Said(s) = <<>>
  BY KindsAre, SaidOne
<1> HIDE DEF b, s
<1>2. /\ b \o s \in Seq(Events) /\ Len(b \o s) = 2 /\ (b \o s)[1] = b[1] /\ (b \o s)[2] = s[1]
  BY <1>1, Pairs
<1>3. Said(b \o s) = <<>>
  <2>1. <<>> \o <<>> = <<>>
    BY EmptySeq, ConcatEmptySeq
  <2> QED
    BY <1>1, <2>1, SaidConcat
<1>4. format \in {"chat", "response", "message", "tools"}
  BY TextAssumption DEF TextAssumption
<1>5. CASE format = "chat"
  <2>1. Opening = <<>>
    BY <1>5 DEF Opening
  <2>2. <<>> \in Seq(Events) /\ Len(<<>>) = 0
    OBVIOUS
  <2> QED
    BY <1>5, <2>1, <2>2, SaidNone
<1>6. CASE format \in {"response", "message"}
  <2>1. Opening = b \o s
    BY <1>6 DEF Opening, b, s
  <2> QED
    BY <1>1, <1>2, <1>3, <1>6, <2>1
<1>7. CASE format = "tools"
  <2>1. Opening = b
    BY <1>7 DEF Opening, b
  <2> QED
    BY <1>1, <1>7, <2>1
<1> QED
  BY <1>4, <1>5, <1>6, <1>7

LEMMA PassedIs ==
  ASSUME sent \in Seq(STRING), NEW tells \in Seq(STRING), IsPrefix(sent, tells)
  PROVE  /\ Passed(tells) \in Seq(Events)
         /\ sent \o Said(Passed(tells)) = tells
         /\ tells = sent => Passed(tells) = <<>>
         /\ tells # sent =>
              LET d == [kind |-> "delta", index |-> 0, text |-> After(tells, Len(sent))] IN
              IF format = "tools" /\ ~TextOpen
              THEN /\ Len(Passed(tells)) = 2 /\ Passed(tells)[2] = d
                   /\ Passed(tells)[1] = [kind |-> "start", index |-> 0, text |-> <<>>]
              ELSE Len(Passed(tells)) = 1 /\ Passed(tells)[1] = d
<1> DEFINE r == After(tells, Len(sent))
           d == Event("delta", 0, r)  s == Event("start", 0, <<>>)
<1>1. Len(sent) \in Nat /\ r \in Seq(STRING) /\ sent \o r = tells
  BY LenProperties, AfterIs, PrefixAndRest
<1>2. CASE tells = sent
  <2>1. Passed(tells) = <<>>
    BY <1>2 DEF Passed
  <2>2. <<>> \in Seq(Events) /\ sent \o <<>> = sent
    BY ConcatEmptySeq
  <2> QED
    BY <1>2, <2>1, <2>2, SaidNone
<1>3. CASE tells # sent
  <2>1. r # <<>>
    BY <1>1, <1>3, ConcatEmptySeq
  <2>2. Delta(0, r) = d
    BY <2>1 DEF Delta
  <2>3. /\ d \in Seq(Events) /\ Len(d) = 1 /\ d[1] = [kind |-> "delta", index |-> 0, text |-> r]
        /\ s \in Seq(Events) /\ Len(s) = 1 /\ s[1] = [kind |-> "start", index |-> 0, text |-> <<>>]
        /\ Said(d) = r /\ Said(s) = <<>>
    BY <1>1, KindsAre, SaidOne, ZenonT(60)
  <2>4. CASE format = "tools" /\ ~TextOpen
    <3>1. Passed(tells) = s \o d
      BY <1>3, <2>2, <2>4 DEF Passed
    <3> HIDE DEF s, d
    <3>2. s \o d \in Seq(Events) /\ Len(s \o d) = 2 /\ (s \o d)[1] = s[1] /\ (s \o d)[2] = d[1]
      BY <2>3, Pairs
    <3>3. Said(s \o d) = r
      <4>1. Said(s \o d) = <<>> \o r
        BY <2>3, SaidConcat
      <4> QED
        BY <1>1, <4>1, ConcatEmptySeq
    <3> QED
      BY <1>1, <1>3, <2>3, <2>4, <3>1, <3>2, <3>3
  <2>5. CASE ~(format = "tools" /\ ~TextOpen)
    <3>1. Passed(tells) = <<>> \o d
      BY <1>3, <2>2, <2>5 DEF Passed
    <3> HIDE DEF s, d
    <3>2. Passed(tells) = d
      BY <2>3, <3>1, ConcatEmptySeq
    <3> QED
      BY <1>1, <1>3, <2>3, <2>5, <3>2
  <2> QED
    BY <2>4, <2>5
<1> QED
  BY <1>2, <1>3

LEMMA BlocksAre ==
  ASSUME NEW first \in Nat, NEW n \in Nat
  PROVE  /\ Blocks(first, n) \in Seq(Events) /\ Len(Blocks(first, n)) = 3 * n
         /\ \A e \in 1 .. 3 * n :
              /\ Blocks(first, n)[e].text = <<>>
              /\ Blocks(first, n)[e].index = first + (e - 1) \div 3
              /\ (e - 1) % 3 = 0 => Blocks(first, n)[e].kind = "start"
              /\ (e - 1) % 3 = 1 => Blocks(first, n)[e].kind = "call"
              /\ (e - 1) % 3 = 2 => Blocks(first, n)[e].kind = "stop"
         /\ Said(Blocks(first, n)) = <<>>
<1> DEFINE ks == <<"start", "call", "stop">>
           b == [e \in 1 .. 3 * n |-> [kind |-> ks[((e - 1) % 3) + 1],
                                       index |-> first + (e - 1) \div 3, text |-> <<>>]]
<1>1. Blocks(first, n) = b
  BY DEF Blocks
<1>2. ks[1] = "start" /\ ks[2] = "call" /\ ks[3] = "stop"
  OBVIOUS
<1> HIDE DEF ks
<1>3. ASSUME NEW e \in 1 .. 3 * n
      PROVE  /\ ks[((e - 1) % 3) + 1] \in EventKind
             /\ first + (e - 1) \div 3 \in Nat
             /\ (e - 1) % 3 = 0 => ks[((e - 1) % 3) + 1] = "start"
             /\ (e - 1) % 3 = 1 => ks[((e - 1) % 3) + 1] = "call"
             /\ (e - 1) % 3 = 2 => ks[((e - 1) % 3) + 1] = "stop"
  <2>1. (e - 1) % 3 \in {0, 1, 2} /\ (e - 1) \div 3 \in Nat
    OBVIOUS
  <2>2. 0 + 1 = 1 /\ 1 + 1 = 2 /\ 2 + 1 = 3
    OBVIOUS
  <2> QED
    BY <1>2, <2>1, <2>2 DEF EventKind
<1>4. b \in [1 .. 3 * n -> Events]
  <2>1. <<>> \in Seq(STRING)
    BY EmptySeq
  <2> QED
    BY <1>3, <2>1 DEF Events
<1>5. b \in Seq(Events) /\ Len(b) = 3 * n
  <2>1. 3 * n \in Nat
    OBVIOUS
  <2> HIDE DEF b
  <2> QED
    BY <1>4, <2>1, SeqDef, LenProperties
<1>6. \A e \in 1 .. 3 * n : b[e].text = <<>> /\ b[e].index = first + (e - 1) \div 3
                            /\ b[e].kind = ks[((e - 1) % 3) + 1]
  OBVIOUS
<1>7. Said(b) = <<>>
  <2> HIDE DEF b
  <2> QED
    BY <1>5, <1>6, SaidNothing
<1> HIDE DEF b
<1> QED
  BY <1>1, <1>3, <1>5, <1>6, <1>7
-----------------------------------------------------------------------------
(* Requests of text, whatever the upstream does: what was passed on.       *)

\* What was passed on is all of the answer, or with tools, when a call came, no less
\* than comes before the call.
SentFits ==
  /\ cut => IsIn("<", got)
  /\ IF format = "tools" /\ IsIn("<", got)
     THEN Len(Trimmed(Words(got))) <= Len(sent)
     ELSE sent = got

\* The events say what was passed on, and end with an open block once there is one.
EventsFit ==
  /\ stage = "pick" => out = <<>>
  /\ stage # "done" \/ format # "tools" => Said(out) = sent
  /\ stage # "done" => \A n \in DOMAIN out : out[n].kind \in {"begin", "start", "delta"}
  /\ format # "chat" /\ stage \in {"check", "stream"} =>
        /\ out # <<>>
        /\ Last(out).index = 0
        /\ Last(out).kind = "begin" <=> format = "tools" /\ sent = <<>>

TextSound ==
  /\ TextTypeOK
  /\ reply \in Seq(Tokens)
  /\ stage \in {"pick", "check"} => got = <<>>
  /\ SentFits
  /\ EventsFit

LEMMA PrefixesCompare ==
  ASSUME NEW a \in Seq(STRING), NEW b \in Seq(STRING), NEW t \in Seq(STRING),
         IsPrefix(a, t), IsPrefix(b, t), Len(a) <= Len(b)
  PROVE  IsPrefix(a, b)
<1>1. Len(a) \in Nat /\ Len(b) \in Nat
  BY LenProperties
<1>2. /\ \A i \in 1 .. Len(a) : a[i] = t[i]
      /\ \A i \in 1 .. Len(b) : b[i] = t[i]
  BY PrefixIs
<1>3. \A i \in 1 .. Len(a) : i \in 1 .. Len(b)
  BY <1>1
<1>4. \A i \in 1 .. Len(a) : a[i] = b[i]
  BY <1>2, <1>3
<1> QED
  BY <1>4, PrefixIs

LEMMA PrefixOfPrefix ==
  ASSUME NEW a \in Seq(STRING), NEW b \in Seq(STRING), NEW t \in Seq(STRING),
         IsPrefix(a, b), IsPrefix(b, t)
  PROVE  IsPrefix(a, t)
<1>1. Len(a) \in Nat /\ Len(b) \in Nat /\ Len(t) \in Nat
  BY LenProperties
<1>2. /\ Len(a) <= Len(b) /\ \A i \in 1 .. Len(a) : a[i] = b[i]
      /\ Len(b) <= Len(t) /\ \A i \in 1 .. Len(b) : b[i] = t[i]
  BY PrefixIs
<1>3. \A i \in 1 .. Len(a) : i \in 1 .. Len(b)
  BY <1>1, <1>2
<1>4. \A i \in 1 .. Len(a) : a[i] = t[i]
  BY <1>2, <1>3
<1>5. Len(a) <= Len(t)
  BY <1>1, <1>2
<1> QED
  BY <1>4, <1>5, PrefixIs

LEMMA PrefixOfSelf ==
  ASSUME NEW s \in Seq(STRING)
  PROVE  IsPrefix(s, s)
<1>1. Len(s) \in Nat
  BY LenProperties
<1>2. Len(s) <= Len(s)
  BY <1>1
<1> QED
  BY <1>2, PrefixIs

\* A text whose last token is its first tag is the words and the tag.
LEMMA TagIsLast ==
  ASSUME got \in Seq(STRING), NEW delta \in Seq(STRING), EndsInTag(delta)
  PROVE  /\ IsIn("<", got \o delta) /\ ~IsIn("<", got)
         /\ Words(got \o delta) \in Seq(STRING)
         /\ got \o delta = Append(Words(got \o delta), "<")
<1> DEFINE g == got \o delta
           l == Len(got)
           k == Len(delta)
           f == Front(delta)
           h == got \o f
           w == Words(g)
<1>1. l \in Nat /\ k \in Nat \ {0} /\ DOMAIN delta = 1 .. k /\ DOMAIN got = 1 .. l
  <2>1. l \in Nat /\ k \in Nat /\ DOMAIN delta = 1 .. k /\ DOMAIN got = 1 .. l
    BY LenProperties
  <2>2. k # 0
    BY EmptySeq DEF EndsInTag
  <2> QED
    BY <2>1, <2>2
<1>2. f \in Seq(STRING) /\ Len(f) = k - 1 /\ \A i \in 1 .. k - 1 : f[i] = delta[i]
  <2>1. k - 1 \in 0 .. Len(delta)
    BY <1>1
  <2> QED
    BY <2>1, UptoIs DEF Front, Upto
<1>3. /\ g \in Seq(STRING) /\ Len(g) = l + k /\ DOMAIN g = 1 .. l + k
      /\ \A i \in 1 .. l + k : g[i] = IF i <= l THEN got[i] ELSE delta[i - l]
  <2>1. /\ g \in Seq(STRING) /\ Len(g) = l + k
        /\ \A i \in 1 .. l + k : g[i] = IF i <= l THEN got[i] ELSE delta[i - l]
    BY ConcatProperties
  <2> HIDE DEF g
  <2>2. DOMAIN g = 1 .. l + k
    BY <2>1, LenProperties
  <2> QED
    BY <2>1, <2>2
<1>4. /\ h \in Seq(STRING) /\ DOMAIN h = 1 .. l + (k - 1)
      /\ \A i \in 1 .. l + (k - 1) : h[i] = IF i <= l THEN got[i] ELSE f[i - l]
  <2>1. /\ h \in Seq(STRING) /\ Len(h) = l + (k - 1)
        /\ \A i \in 1 .. l + (k - 1) : h[i] = IF i <= l THEN got[i] ELSE f[i - l]
    <3> HIDE DEF f, k
    <3>1. /\ h \in Seq(STRING) /\ Len(h) = l + Len(f)
          /\ \A i \in 1 .. l + Len(f) : h[i] = IF i <= l THEN got[i] ELSE f[i - l]
      BY <1>2, ConcatProperties
    <3> QED
      BY <1>2, <3>1
  <2> HIDE DEF h
  <2>2. DOMAIN h = 1 .. l + (k - 1)
    BY <2>1, LenProperties
  <2> QED
    BY <2>1, <2>2
<1>5. delta[k] = "<" /\ ~IsIn("<", h)
  BY DEF EndsInTag, Last
<1> HIDE DEF g, h, f, l, k
<1>6. ASSUME NEW i \in 1 .. l + (k - 1) PROVE g[i] # "<" /\ (i <= l => got[i] # "<")
  <2>1. h[i] # "<"
    BY <1>4, <1>5 DEF IsIn, ToSet
  <2>2. i \in 1 .. l + k /\ (~(i <= l) => i - l \in 1 .. k - 1)
    BY <1>1
  <2>3. g[i] = h[i]
    BY <1>2, <1>3, <1>4, <2>2
  <2>4. i <= l => got[i] = h[i]
    BY <1>4
  <2> QED
    BY <2>1, <2>3, <2>4
<1>7. l + k \in 1 .. l + k /\ g[l + k] = "<"
  <2>1. l + k \in 1 .. l + k /\ ~(l + k <= l) /\ (l + k) - l = k
    BY <1>1
  <2> QED
    BY <1>3, <1>5, <2>1
<1>8. IsIn("<", g)
  BY <1>3, <1>7 DEF IsIn, ToSet
<1>9. ~IsIn("<", got)
  <2> SUFFICES ASSUME NEW i \in 1 .. l, got[i] = "<" PROVE FALSE
    BY <1>1 DEF IsIn, ToSet
  <2>1. i \in 1 .. l + (k - 1) /\ i <= l
    BY <1>1
  <2> QED
    BY <1>6, <2>1
<1>10. First("<", g) = l + k
  <2>1. First("<", g) \in 1 .. l + k /\ g[First("<", g)] = "<"
    BY <1>3, <1>8, FirstIs
  <2>2. First("<", g) \notin 1 .. l + (k - 1)
    BY <1>6, <2>1
  <2> QED
    BY <1>1, <2>1, <2>2
<1>11. /\ w \in Seq(STRING) /\ Len(w) = (l + k) - 1
       /\ \A i \in 1 .. (l + k) - 1 : w[i] = g[i]
  BY <1>3, <1>8, <1>10, WordsAre
<1> HIDE DEF w
<1>12. g = Append(w, "<")
  <2> DEFINE a == Append(w, "<")
  <2>1. "<" \in STRING
    BY <1>3, <1>7, ElementOfSeq
  <2>2. /\ a \in Seq(STRING) /\ Len(a) = Len(w) + 1 /\ a[Len(w) + 1] = "<"
        /\ \A i \in 1 .. Len(w) : a[i] = w[i]
    BY <1>11, <2>1, AppendProperties
  <2> HIDE DEF a
  <2>3. Len(a) = l + k /\ a[l + k] = "<" /\ \A i \in 1 .. (l + k) - 1 : a[i] = g[i]
    <3>1. Len(w) + 1 = l + k
      BY <1>1, <1>11
    <3> QED
      BY <1>11, <2>2, <3>1
  <2>4. ASSUME NEW i \in 1 .. l + k PROVE g[i] = a[i]
    <3>1. i = l + k \/ i \in 1 .. (l + k) - 1
      BY <1>1
    <3> QED
      BY <1>7, <2>3, <3>1
  <2> QED
    BY <1>3, <2>2, <2>3, <2>4, SeqEqual DEF a
<1> QED
  BY <1>8, <1>9, <1>11, <1>12 DEF g, w

LEMMA ToldIs ==
  ASSUME got \in Seq(STRING), sent \in Seq(STRING), SentFits, NEW delta \in Seq(STRING),
         NEW part \in BOOLEAN, part => format = "tools" /\ EndsInTag(delta)
  PROVE  /\ Told(delta, part) \in Seq(STRING)
         /\ IsPrefix(sent, Told(delta, part))
         /\ IF format = "tools" /\ IsIn("<", got \o delta)
            THEN Len(Trimmed(Words(got \o delta))) <= Len(Told(delta, part))
            ELSE Told(delta, part) = got \o delta
         /\ part => Told(delta, part) = got \o delta
<1> DEFINE g == got \o delta
<1>1. g \in Seq(STRING) /\ IsPrefix(got, g)
  BY ConcatProperties, PrefixOfMore
<1>0. CASE part
  <2>1. /\ IsIn("<", g) /\ ~IsIn("<", got) /\ Words(g) \in Seq(STRING)
    BY <1>0, TagIsLast
  <2>2. sent = got
    BY <2>1 DEF SentFits
  <2>3. Told(delta, part) = g
    <3>1. Told(delta, part) = IF (format = "tools" /\ IsIn("<", got)) \/ ~IsPrefix(sent, g)
                              THEN sent ELSE g
      BY <1>0, Zenon DEF Told
    <3> QED
      BY <1>1, <2>1, <2>2, <3>1
  <2>4. Len(Trimmed(Words(g))) <= Len(g)
    <3> DEFINE w == Words(g)
    <3>1. IsPrefix(w, g)
      BY <1>1, <2>1, WordsAre
    <3>2. Trimmed(w) \in Seq(STRING) /\ IsPrefix(Trimmed(w), w)
      BY <2>1, TrimmedIs
    <3> QED
      <4> HIDE DEF w, g
      <4>1. IsPrefix(Trimmed(w), g)
        BY <1>1, <2>1, <3>1, <3>2, PrefixOfPrefix DEF w
      <4> QED
        BY <1>1, <3>2, <4>1, PrefixIs DEF w
  <2> QED
    BY <1>0, <1>1, <2>1, <2>2, <2>3, <2>4
<1>2. CASE format # "tools" /\ ~part
  <2>1. sent = got
    BY <1>2 DEF SentFits
  <2>2. Told(delta, part) = g
    BY <1>1, <1>2, <2>1 DEF Told
  <2> QED
    BY <1>1, <1>2, <2>1, <2>2
<1>3. CASE format = "tools" /\ IsIn("<", got) /\ ~part
  <2>1. Told(delta, part) = sent
    BY <1>3 DEF Told
  <2>2. IsIn("<", g) /\ Words(g) = Words(got)
    BY <1>3, WordsStay
  <2>3. Len(Trimmed(Words(got))) <= Len(sent)
    BY <1>3 DEF SentFits
  <2> QED
    BY <1>3, <2>1, <2>2, <2>3, PrefixOfSelf
<1>4. CASE format = "tools" /\ ~IsIn("<", got) /\ ~part
  <2>1. sent = got
    BY <1>4 DEF SentFits
  <2>2. CASE ~IsIn("<", g)
    <3>1. Streamable(g) = g
      BY <2>2 DEF Streamable
    <3>2. Told(delta, part) = g
      BY <1>1, <1>4, <2>1, <3>1 DEF Told
    <3> QED
      BY <1>1, <2>1, <2>2, <3>2
  <2>3. CASE IsIn("<", g)
    <3> DEFINE w == Trimmed(Words(g))
    <3>1. Streamable(g) = w
      BY <2>3 DEF Streamable, Words
    <3>2. /\ Words(g) \in Seq(STRING) /\ IsPrefix(Words(g), g)
          /\ w \in Seq(STRING) /\ IsPrefix(w, Words(g))
      <4>1. Words(g) \in Seq(STRING) /\ IsPrefix(Words(g), g)
        BY <1>1, <2>3, WordsAre
      <4> QED
        BY <4>1, TrimmedIs
    <3>3. IsPrefix(w, g)
      <4> HIDE DEF w, g
      <4> QED
        BY <1>1, <3>2, PrefixOfPrefix
    <3>4. CASE IsPrefix(sent, w)
      <4>1. Told(delta, part) = w
        BY <1>4, <3>1, <3>4 DEF Told
      <4>2. Len(w) <= Len(w)
        <5>1. Len(w) \in Nat
          BY <3>2, LenProperties
        <5> QED
          BY <5>1
      <4> QED
        BY <1>4, <2>3, <3>2, <3>4, <4>1, <4>2
    <3>5. CASE ~IsPrefix(sent, w)
      <4>1. Told(delta, part) = sent
        BY <1>4, <3>1, <3>5 DEF Told
      <4>2. ~(Len(sent) <= Len(w))
        BY <1>1, <2>1, <3>2, <3>3, <3>5, PrefixesCompare
      <4>3. Len(w) <= Len(sent)
        <5>1. Len(w) \in Nat /\ Len(sent) \in Nat
          BY <3>2, LenProperties
        <5> QED
          BY <5>1, <4>2
      <4> QED
        BY <1>4, <2>3, <4>1, <4>3, PrefixOfSelf
    <3> QED
      BY <3>4, <3>5
  <2> QED
    BY <2>2, <2>3
<1> QED
  BY <1>0, <1>2, <1>3, <1>4

LEMMA EventsAdd ==
  ASSUME NEW a \in Seq(Events), NEW b \in Seq(Events)
  PROVE  /\ a \o b \in Seq(Events) /\ Len(a) \in Nat /\ Len(b) \in Nat
         /\ DOMAIN a = 1 .. Len(a) /\ DOMAIN b = 1 .. Len(b)
         /\ Len(a \o b) = Len(a) + Len(b)
         /\ DOMAIN (a \o b) = 1 .. Len(a) + Len(b)
         /\ \A i \in 1 .. Len(a) : (a \o b)[i] = a[i]
         /\ \A i \in Len(a) + 1 .. Len(a) + Len(b) : (a \o b)[i] = b[i - Len(a)]
         /\ \A i \in 1 .. Len(b) : (a \o b)[Len(a) + i] = b[i]
         /\ Len(b) > 0 => a \o b # <<>> /\ Last(a \o b) = b[Len(b)]
<1> DEFINE c == a \o b
<1>1. /\ Len(a) \in Nat /\ Len(b) \in Nat
      /\ DOMAIN a = 1 .. Len(a) /\ DOMAIN b = 1 .. Len(b)
  BY LenProperties
<1>2. /\ c \in Seq(Events) /\ Len(c) = Len(a) + Len(b)
      /\ \A i \in 1 .. Len(a) + Len(b) : c[i] = IF i <= Len(a) THEN a[i] ELSE b[i - Len(a)]
  BY ConcatProperties
<1>3. DOMAIN c = 1 .. Len(a) + Len(b)
  <2>1. DOMAIN c = 1 .. Len(c)
    <3> HIDE DEF c
    <3> QED
      BY <1>2, LenProperties
  <2> QED
    BY <1>2, <2>1
<1> HIDE DEF c
<1>4. ASSUME NEW i \in 1 .. Len(a) PROVE c[i] = a[i]
  <2>1. i \in 1 .. Len(a) + Len(b) /\ i <= Len(a)
    BY <1>1
  <2> QED
    BY <1>2, <2>1
<1>5. ASSUME NEW i \in Len(a) + 1 .. Len(a) + Len(b) PROVE c[i] = b[i - Len(a)]
  <2>1. i \in 1 .. Len(a) + Len(b) /\ ~(i <= Len(a))
    BY <1>1
  <2> QED
    BY <1>2, <2>1
<1>6. ASSUME NEW i \in 1 .. Len(b) PROVE c[Len(a) + i] = b[i]
  <2>1. Len(a) + i \in Len(a) + 1 .. Len(a) + Len(b) /\ (Len(a) + i) - Len(a) = i
    BY <1>1
  <2> QED
    BY <1>5, <2>1
<1>7. ASSUME Len(b) > 0 PROVE c # <<>> /\ Last(c) = b[Len(b)]
  <2>1. Len(c) # 0 /\ Len(b) \in 1 .. Len(b)
    BY <1>1, <1>2, <1>7
  <2>2. c # <<>>
    BY <2>1, EmptySeq
  <2>3. c[Len(c)] = b[Len(b)]
    BY <1>2, <1>6, <2>1
  <2> QED
    BY <2>2, <2>3 DEF Last
<1> QED
  BY <1>1, <1>2, <1>3, <1>4, <1>5, <1>6, <1>7 DEF c

\* What a text that is said tells.
LEMMA PartIs ==
  ASSUME NEW newraw, Say(newraw), Sanitized(newraw) # text
  PROVE  \E part \in BOOLEAN :
           LET delta == New(Sanitized(newraw)) IN
           /\ part => format = "tools" /\ EndsInTag(delta)
           /\ got' = got \o delta
           /\ sent' = Told(delta, part) /\ out' = out \o Passed(Told(delta, part))
           /\ cut' = (cut \/ part)
<1> DEFINE delta == New(Sanitized(newraw))
<1>1. PICK part \in {FALSE, format = "tools" /\ EndsInTag(delta)} :
         /\ cut' = (cut \/ part)
         /\ sent' = Told(delta, part)
         /\ out' = out \o Passed(Told(delta, part))
  BY DEF Say
<1>2. got' = got \o delta
  BY DEF Say
<1>3. part \in BOOLEAN /\ (part => format = "tools" /\ EndsInTag(delta))
  <2> HIDE DEF delta
  <2> QED
    BY Zenon
<1> HIDE DEF delta
<1> QED
  BY <1>1, <1>2, <1>3 DEF delta

\* Every text that is said keeps this.
LEMMA SayKeeps ==
  ASSUME TextSound, stage = "stream", NEW newraw \in Seq(STRING), Say(newraw), reply' \in Seq(Tokens)
  PROVE  TextSound'
<1> DEFINE next == Sanitized(newraw)
           delta == New(next)
<1>1. /\ text \in Seq(STRING) /\ got \in Seq(STRING) /\ sent \in Seq(STRING)
      /\ out \in Seq(Events) /\ SentFits /\ EventsFit
  BY DEF TextSound, TextTypeOK, Events
<1>2. next \in Seq(STRING)
  BY SanitizedIs
<1>3. delta \in Seq(STRING)
  <2>1. Len(text) \in Nat
    BY <1>1, LenProperties
  <2> HIDE DEF next
  <2>2. After(next, Len(text)) \in Seq(STRING)
    BY <1>2, <2>1, AfterIs
  <2> QED
    BY <1>2, <2>2 DEF New
<1>4. /\ format' = format /\ stage' = stage /\ token' = token /\ tried' = tried
      /\ latest' = latest /\ open' = open /\ echo' = echo /\ raw' = newraw /\ text' = next
  BY DEF Say
<1>5. reply' \in Seq(STRING)
  BY TextsAreStrings
<1>6. CASE next = text
  <2>1. got' = got /\ sent' = sent /\ cut' = cut /\ out' = out
    BY <1>6 DEF Say
  <2>2. TextTypeOK'
    BY <1>2, <1>4, <1>5, <2>1 DEF TextSound, TextTypeOK
  <2>3. SentFits' /\ EventsFit'
    BY <1>1, <1>4, <2>1 DEF SentFits, EventsFit
  <2> QED
    BY <1>4, <2>1, <2>2, <2>3 DEF TextSound
<1>7. CASE next # text
  <2>0. PICK part \in BOOLEAN :
           /\ part => format = "tools" /\ EndsInTag(delta)
           /\ got' = got \o delta
           /\ sent' = Told(delta, part) /\ out' = out \o Passed(Told(delta, part))
           /\ cut' = (cut \/ part)
    BY <1>7, PartIs
  <2> DEFINE tells == Told(delta, part)
  <2>1. got' = got \o delta /\ sent' = tells /\ out' = out \o Passed(tells)
    BY <2>0
  <2> HIDE DEF delta, next
  <2>2. /\ tells \in Seq(STRING) /\ IsPrefix(sent, tells)
        /\ IF format = "tools" /\ IsIn("<", got \o delta)
           THEN Len(Trimmed(Words(got \o delta))) <= Len(tells)
           ELSE tells = got \o delta
    BY <1>1, <1>3, <2>0, ToldIs
  <2> HIDE DEF tells
  <2>11. cut' => IsIn("<", got')
    <3>1. CASE part
      BY <1>1, <1>3, <2>0, <2>1, <3>1, TagIsLast
    <3>2. CASE ~part
      <4>1. ASSUME cut PROVE IsIn("<", got \o delta)
        BY <1>1, <1>3, <4>1, WordsStay DEF SentFits
      <4> QED
        BY <2>0, <2>1, <3>2, <4>1
    <3> QED
      BY <3>1, <3>2
  <2>3. SentFits'
    BY <1>4, <2>1, <2>2, <2>11 DEF SentFits
  <2>4. got \o delta \in Seq(STRING)
    BY <1>1, <1>3, ConcatProperties
  <2> DEFINE es == Passed(tells)
             d == [kind |-> "delta", index |-> 0, text |-> After(tells, Len(sent))]
  <2>5. /\ es \in Seq(Events) /\ sent \o Said(es) = tells
        /\ tells = sent => es = <<>>
        /\ tells # sent => IF format = "tools" /\ ~TextOpen
                          THEN /\ Len(es) = 2 /\ es[2] = d
                               /\ es[1] = [kind |-> "start", index |-> 0, text |-> <<>>]
                          ELSE Len(es) = 1 /\ es[1] = d
    BY <1>1, <2>2, PassedIs
  <2> HIDE DEF es
  <2>6. /\ out \o es \in Seq(Events) /\ Len(out) \in Nat
        /\ DOMAIN (out \o es) = 1 .. Len(out) + Len(es) /\ DOMAIN out = 1 .. Len(out)
        /\ \A i \in 1 .. Len(out) : (out \o es)[i] = out[i]
        /\ \A i \in Len(out) + 1 .. Len(out) + Len(es) : (out \o es)[i] = es[i - Len(out)]
        /\ Len(es) > 0 => out \o es # <<>> /\ Last(out \o es) = es[Len(es)]
    BY <1>1, <2>5, EventsAdd
  <2>7. TextTypeOK'
    <3>1. out' \in Seq([kind : EventKind, index : Nat, text : Seq(STRING)])
      BY <2>1, <2>6 DEF es, Events
    <3>2. \A s \in {reply', raw', text', got', sent'} : s \in Seq(STRING)
      BY <1>2, <1>4, <1>5, <2>1, <2>2, <2>4
    <3>3. cut' \in BOOLEAN
      BY <2>0, Zenon
    <3> QED
      BY <1>4, <3>1, <3>2, <3>3 DEF TextSound, TextTypeOK
  <2>8. Said(out') = sent'
    <3>1. Said(out \o es) = Said(out) \o Said(es)
      BY <1>1, <2>5, SaidConcat
    <3>2. Said(out) = sent
      BY <1>1 DEF EventsFit
    <3> QED
      BY <2>1, <2>5, <3>1, <3>2 DEF es
  <2>9. CASE tells = sent
    <3>1. es = <<>> /\ out \o <<>> = out
      BY <1>1, <2>5, <2>9, ConcatEmptySeq
    <3>2. out' = out /\ sent' = sent
      BY <2>1, <2>9, <3>1 DEF es
    <3>3. EventsFit'
      BY <1>1, <1>4, <3>2 DEF EventsFit
    <3> QED
      BY <1>4, <2>3, <2>7, <3>3 DEF TextSound
  <2>10. CASE tells # sent
    <3>1. /\ Len(es) \in {1, 2} /\ es[Len(es)] = d
          /\ \A i \in 1 .. Len(es) : es[i].kind \in {"start", "delta"}
      <4>1. CASE format = "tools" /\ ~TextOpen
        <5>1. Len(es) = 2 /\ es[2] = d /\ es[1].kind = "start" /\ d.kind = "delta"
          BY <2>5, <2>10, <4>1
        <5>2. \A i \in 1 .. 2 : i = 1 \/ i = 2
          OBVIOUS
        <5> QED
          BY <5>1, <5>2
      <4>2. CASE ~(format = "tools" /\ ~TextOpen)
        <5>1. Len(es) = 1 /\ es[1] = d /\ d.kind = "delta"
          BY <2>5, <2>10, <4>2
        <5>2. \A i \in 1 .. 1 : i = 1
          OBVIOUS
        <5> QED
          BY <5>1, <5>2
      <4> QED
        BY <4>1, <4>2
    <3>2. /\ out' # <<>> /\ Last(out').index = 0 /\ Last(out').kind = "delta"
      <4>1. out' = out \o es
        BY <2>1 DEF es
      <4>2. Len(es) > 0
        <5>1. \A n : n \in {1, 2} => n > 0
          OBVIOUS
        <5> QED
          BY <3>1, <5>1, Zenon
      <4>3. out \o es # <<>> /\ Last(out \o es) = d
        BY <2>6, <3>1, <4>2
      <4>4. d.index = 0 /\ d.kind = "delta"
        OBVIOUS
      <4> QED
        BY <4>1, <4>3, <4>4
    <3>3. sent' # <<>>
      <4> SUFFICES ASSUME tells = <<>> PROVE FALSE
        BY <2>1
      <4>1. Len(sent) \in Nat /\ Len(sent) <= Len(tells) /\ Len(tells) = 0
        BY <1>1, <2>2, PrefixIs, LenProperties, EmptySeq
      <4>2. sent = <<>>
        BY <1>1, <4>1, EmptySeq
      <4> QED
        BY <2>10, <4>2
    <3>4. \A n \in DOMAIN out' : out'[n].kind \in {"begin", "start", "delta"}
      <4>1. \A n \in DOMAIN out : out[n].kind \in {"begin", "start", "delta"}
        BY <1>1 DEF EventsFit
      <4>2. \A n \in 1 .. Len(out) + Len(es) :
              \/ n \in 1 .. Len(out)
              \/ n \in Len(out) + 1 .. Len(out) + Len(es) /\ n - Len(out) \in 1 .. Len(es)
        BY <2>6, <3>1
      <4>3. \A n \in 1 .. Len(out) + Len(es) : (out \o es)[n].kind \in {"begin", "start", "delta"}
        BY <2>6, <3>1, <4>1, <4>2
      <4> QED
        BY <2>1, <2>6, <4>3 DEF es
    <3>5. EventsFit'
      BY <1>4, <2>8, <3>2, <3>3, <3>4 DEF EventsFit
    <3> QED
      BY <1>4, <2>3, <2>7, <3>5 DEF TextSound
  <2> QED
    BY <2>9, <2>10
<1> QED
  BY <1>6, <1>7
LEMMA ShownTyped ==
  ASSUME NEW s \in Seq(STRING)
  PROVE  Plain(s) \in Seq(STRING) /\ Shown(s) \in Seq(STRING)
<1>1. {i \in DOMAIN s : ~InCall(s, i)} \in SUBSET DOMAIN s
  OBVIOUS
<1>2. Plain(s) \in Seq(STRING)
  BY <1>1, SelectedIs DEF Plain
<1> QED
  BY <1>2, StrippedIs DEF Shown

LEMMA DeltaIs ==
  ASSUME NEW s \in Seq(STRING)
  PROVE  /\ Delta(0, s) \in Seq(Events) /\ Said(Delta(0, s)) = s
         /\ s # <<>> => /\ Len(Delta(0, s)) = 1
                        /\ Delta(0, s)[1] = [kind |-> "delta", index |-> 0, text |-> s]
<1>1. /\ Event("delta", 0, s) \in Seq(Events) /\ Len(Event("delta", 0, s)) = 1
      /\ Event("delta", 0, s)[1] = [kind |-> "delta", index |-> 0, text |-> s]
      /\ Said(Event("delta", 0, s)) = s
  BY KindsAre, SaidOne
<1>2. <<>> \in Seq(Events)
  OBVIOUS
<1> QED
  BY <1>1, <1>2, SaidNone DEF Delta

\* The parts of a finish with calls.
TextStop == IF TextOpen THEN Event("stop", 0, <<>>) ELSE <<>>
Rest == After(Shown(got), Len(sent))
LateText ==
  IF Rest = <<>> THEN <<>>
  ELSE IF TextOpen THEN Delta(0, Rest)
  ELSE Event("start", 0, <<>>) \o Delta(0, Rest) \o Event("stop", 0, <<>>)

LEMMA FinishedIs ==
  Finished = IF format = "tools" /\ Calls(got) > 0
             THEN (TextStop \o LateText) \o Blocks(FirstCall, Calls(got)) ELSE TextStop
BY DEF Finished, TextStop, LateText, Rest

LEMMA LateIs ==
  ASSUME got \in Seq(STRING), sent \in Seq(STRING)
  PROVE  /\ TextStop \in Seq(Events) /\ Said(TextStop) = <<>>
         /\ Rest \in Seq(STRING)
         /\ LateText \in Seq(Events) /\ Said(LateText) = Rest
<1> DEFINE st == Event("start", 0, <<>>)  d == Delta(0, Rest)  sp == Event("stop", 0, <<>>)
<1>1. Rest \in Seq(STRING)
  BY ShownTyped, AfterIs, LenProperties DEF Rest
<1>2. /\ st \in Seq(Events) /\ Said(st) = <<>>
      /\ sp \in Seq(Events) /\ Said(sp) = <<>>
      /\ d \in Seq(Events) /\ Said(d) = Rest
  BY <1>1, KindsAre, SaidOne, DeltaIs
<1>3. <<>> \in Seq(Events) /\ Said(<<>>) = <<>>
  BY SaidNone
<1>4. TextStop \in Seq(Events) /\ Said(TextStop) = <<>>
  BY <1>2, <1>3 DEF TextStop
<1>5. LateText = IF Rest = <<>> THEN <<>> ELSE IF TextOpen THEN d ELSE (st \o d) \o sp
  BY DEF LateText
<1> HIDE DEF st, d, sp
<1>6. st \o d \in Seq(Events) /\ Said(st \o d) = Rest
  <2>1. Said(st \o d) = <<>> \o Rest
    BY <1>2, SaidConcat
  <2> QED
    BY <1>1, <1>2, <2>1, ConcatProperties, ConcatEmptySeq
<1>7. (st \o d) \o sp \in Seq(Events) /\ Said((st \o d) \o sp) = Rest
  <2>1. Said((st \o d) \o sp) = Rest \o <<>>
    BY <1>2, <1>6, SaidConcat
  <2> QED
    BY <1>1, <1>2, <1>6, <2>1, ConcatProperties, ConcatEmptySeq
<1> QED
  BY <1>1, <1>2, <1>3, <1>4, <1>5, <1>7

LEMMA FirstCallTyped ==
  FirstCall \in Nat
BY DEF FirstCall

LEMMA ClosingTyped ==
  ASSUME TextTypeOK
  PROVE  /\ Closing \in Seq(Events)
         /\ format # "tools" => Said(Closing) = <<>>
<1> DEFINE st == Event("stop", 0, <<>>)  en == Event("end", 0, <<>>)
<1>1. got \in Seq(STRING) /\ sent \in Seq(STRING) /\ format \in {"chat", "response", "message", "tools"}
  BY TextAssumption DEF TextTypeOK, TextAssumption
<1>2. /\ st \in Seq(Events) /\ Said(st) = <<>>
      /\ en \in Seq(Events) /\ Said(en) = <<>>
  BY KindsAre, SaidOne
<1>3. Finished \in Seq(Events) /\ (format # "tools" => Said(Finished) = <<>>)
  <2>1. /\ TextStop \in Seq(Events) /\ Said(TextStop) = <<>> /\ LateText \in Seq(Events)
        /\ Blocks(FirstCall, Calls(got)) \in Seq(Events)
    BY <1>1, LateIs, CallsCount, FirstCallTyped, BlocksAre
  <2>2. (TextStop \o LateText) \o Blocks(FirstCall, Calls(got)) \in Seq(Events)
    BY <2>1, ConcatProperties
  <2> QED
    BY <2>1, <2>2, FinishedIs
<1>4. Closing = IF format = "chat" THEN en ELSE IF format = "response" THEN st \o en ELSE Finished \o en
  BY <1>1 DEF Closing
<1> HIDE DEF st, en
<1>5. st \o en \in Seq(Events) /\ Said(st \o en) = <<>>
  <2>1. Said(st \o en) = <<>> \o <<>> /\ <<>> \o <<>> = <<>>
    BY <1>2, SaidConcat, EmptySeq, ConcatEmptySeq
  <2> QED
    BY <1>2, <2>1, ConcatProperties
<1>6. Finished \o en \in Seq(Events) /\ (format # "tools" => Said(Finished \o en) = <<>>)
  <2>1. Said(Finished \o en) = Said(Finished) \o Said(en)
    BY <1>2, <1>3, SaidConcat
  <2>2. <<>> \o <<>> = <<>>
    BY EmptySeq, ConcatEmptySeq
  <2> QED
    BY <1>2, <1>3, <2>1, <2>2, ConcatProperties
<1> QED
  BY <1>2, <1>4, <1>5, <1>6

LEMMA TextStarts ==
  ASSUME TextInit
  PROVE  TextSound
<1> USE DEF TextInit
<1>1. <<>> \in Seq(STRING) /\ <<>> \in Seq(Tokens) /\ <<>> \in Seq(Events) /\ Len(History) \in Nat
  <2>1. Len(History) \in Nat
    BY TextAssumption, LenProperties DEF TextAssumption
  <2> QED
    BY <2>1, EmptySeq
<1>2. TextTypeOK
  <2>1. latest \in [Account -> Generation \cup {0}] /\ open \subseteq AccountToken
    BY DEF Generation, AccountToken
  <2>2. out \in Seq([kind : EventKind, index : Nat, text : Seq(STRING)])
    BY <1>1 DEF Events
  <2>3. echo \in 0 .. Len(History)
    BY <1>1
  <2> QED
    BY <1>1, <2>1, <2>2, <2>3 DEF TextTypeOK
<1>3. ~IsIn("<", got)
  BY DEF IsIn, ToSet
<1>4. SentFits
  BY <1>3 DEF SentFits
<1>5. EventsFit
  BY SaidNone DEF EventsFit
<1> QED
  BY <1>1, <1>2, <1>4, <1>5 DEF TextSound

LEMMA UnprefixedTyped ==
  ASSUME NEW s \in Seq(STRING)
  PROVE  Unprefixed(s) \in Seq(STRING)
<1>1. PICK n \in 0 .. Len(s) : Unprefixed(s) = After(s, n * Len(HistoryText))
  BY UnprefixedIs
<1>2. n \in Nat /\ Len(HistoryText) \in Nat
  BY HistoryTyped, LenProperties
<1>3. n * Len(HistoryText) \in Nat
  BY <1>2, Products
<1> QED
  BY <1>1, <1>3, AfterIs

LEMMA BoundedTyped ==
  ASSUME NEW n, NEW s \in BoundedSeq(Written, n)
  PROVE  s \in Seq(Tokens)
<1>1. PICK m \in 0 .. n : s \in [1 .. m -> Written]
  BY DEF BoundedSeq, SeqOf
<1>2. Written \subseteq Tokens
  BY DEF Written
<1>3. m \in Nat /\ s \in [1 .. m -> Tokens]
  BY <1>1, <1>2
<1> QED
  BY <1>3, SeqDef

\* Steps that say something, of an answer that grows or, where it is rewritten, changes.
LEMMA WhatIsSaid ==
  ASSUME TextSound,
         \/ \E more \in Pieces : AppendText(more) \/ WholeText(more)
         \/ \E s \in Texts : ReplaceText(s)
         \/ Echo
  PROVE  \/ \E newraw \in Seq(STRING) :
              stage = "stream" /\ Say(newraw) /\ reply' \in Seq(Tokens)
         \/ /\ Echo /\ stage = "stream" /\ echo' \in 0 .. Len(History)
            /\ raw' = <<>> /\ text' = <<>>
            /\ UNCHANGED <<format, stage, token, tried, latest, open, reply, got, sent, cut, out>>
<1>1. reply \in Seq(Tokens) /\ reply \in Seq(STRING) /\ raw \in Seq(STRING) /\ echo \in 0 .. Len(History)
  BY DEF TextSound, TextTypeOK
<1>2. ASSUME NEW more \in Pieces, AppendText(more)
      PROVE  \E newraw \in Seq(STRING) : stage = "stream" /\ Say(newraw) /\ reply' \in Seq(Tokens)
  <2>1. more \in Seq(Tokens) /\ more \in Seq(STRING)
    BY BoundedTyped, TextsAreStrings DEF Pieces
  <2>2. reply \o more \in Seq(Tokens) /\ raw \o more \in Seq(STRING)
    BY <1>1, <2>1, ConcatProperties
  <2> QED
    BY <1>2, <2>2 DEF AppendText
<1>3. ASSUME NEW more \in Pieces, WholeText(more)
      PROVE  \E newraw \in Seq(STRING) : stage = "stream" /\ Say(newraw) /\ reply' \in Seq(Tokens)
  <2>1. more \in Seq(Tokens) /\ more \in Seq(STRING)
    BY BoundedTyped, TextsAreStrings DEF Pieces
  <2>2. PICK prefix \in {<<>>, HistoryText} : Say(Unprefixed((prefix \o reply) \o more))
    BY <1>3 DEF WholeText
  <2>3. prefix \in Seq(STRING)
    BY HistoryTyped, EmptySeq
  <2>4. (prefix \o reply) \o more \in Seq(STRING)
    BY <1>1, <2>1, <2>3, ConcatProperties
  <2>5. Unprefixed((prefix \o reply) \o more) \in Seq(STRING)
    BY <2>4, UnprefixedTyped
  <2>6. reply' \in Seq(Tokens) /\ stage = "stream"
    BY <1>1, <1>3, <2>1, ConcatProperties DEF WholeText
  <2> QED
    BY <2>2, <2>5, <2>6
<1>4. ASSUME NEW s \in Texts, ReplaceText(s)
      PROVE  \E newraw \in Seq(STRING) : stage = "stream" /\ Say(newraw) /\ reply' \in Seq(Tokens)
  <2>1. s \in Seq(Tokens)
    <3>1. CASE Rewrites
      BY <3>1, BoundedTyped DEF Texts
    <3>2. CASE ~Rewrites
      <4>1. PICK more \in BoundedSeq(Written, Room) : s = reply \o more
        BY <3>2 DEF Texts
      <4> QED
        BY <1>1, <4>1, BoundedTyped, ConcatProperties
    <3> QED
      BY <3>1, <3>2
  <2>2. Unprefixed(s) \in Seq(STRING)
    BY <2>1, TextsAreStrings, UnprefixedTyped
  <2> QED
    BY <1>4, <2>1, <2>2 DEF ReplaceText
<1>5. CASE Echo
  <2> DEFINE m == History[echo + 1]
  <2>1. echo + 1 \in 1 .. Len(History) /\ echo + 1 \in 0 .. Len(History)
    <3>1. Len(History) \in Nat
      BY TextAssumption, LenProperties DEF TextAssumption
    <3> QED
      BY <1>1, <1>5, <3>1 DEF Echo
  <2>2. m \in Seq(STRING)
    BY <2>1, EchoGoes
  <2>3. CASE Unprefixed(m) = m
    BY <1>5, <2>1, <2>3 DEF Echo
  <2>4. CASE Unprefixed(m) # m
    <3>1. Say(Unprefixed(m)) /\ reply' = reply /\ stage = "stream"
      BY <1>5, <2>4 DEF Echo
    <3>2. Unprefixed(m) \in Seq(STRING)
      BY <2>2, UnprefixedTyped
    <3> QED
      BY <1>1, <3>1, <3>2
  <2> QED
    BY <2>3, <2>4
<1> QED
  BY <1>2, <1>3, <1>4, <1>5
LEMMA CandidatesTyped ==
  ASSUME NEW accounts, NEW excluded, NEW t \in Candidates(accounts, excluded)
  PROVE  t \in AccountToken \cup {Anonymous}
BY DEF Candidates, AccountToken

LEMMA RefreshedTyped ==
  ASSUME NEW accounts \in [Account -> Generation \cup {0}], NEW t \in AccountToken \cup {Anonymous}
  PROVE  Refreshed(accounts, t) \in [Account -> Generation \cup {0}]
BY DEF Refreshed, AccountToken

LEMMA MarkedTyped ==
  ASSUME latest \in [Account -> Generation \cup {0}], NEW t, NEW after \in MarkedOrNot(t)
  PROVE  after \in [Account -> Generation \cup {0}]
BY DEF MarkedOrNot

\* What the steps of the accounts leave alone, and what they do to the events.
Quiet ==
  /\ UNCHANGED <<format, got, sent, cut>>
  /\ stage \in {"pick", "check", "stream"} /\ stage' \in {"pick", "check", "stream", "failed"}
  /\ stage' = "pick" => stage = "pick"
  /\ stage' = "check" => got = <<>>
  /\ stage' = "stream" => stage \in {"check", "stream"}
  /\ out' = IF stage = "pick" /\ stage' = "check" THEN Opening ELSE out
  /\ \/ UNCHANGED Answer /\ (stage' = "stream" => stage = "stream")
     \/ NewAnswer /\ got = <<>>

LEMMA AccountSteps ==
  ASSUME TextSound, Pick \/ SkipOpen \/ Ask \/ Rejected \/ Breaks
  PROVE  Quiet /\ TextTypeOK' /\ reply' \in Seq(Tokens)
<1> DEFINE L == [Account -> Generation \cup {0}]
           A == AccountToken \cup {Anonymous}
           Accounts == /\ token' \in A /\ tried' \subseteq AccountToken
                       /\ latest' \in L /\ open' \subseteq AccountToken
<1>1. /\ format \in Formats /\ token \in A /\ tried \subseteq AccountToken /\ latest \in L
      /\ open \subseteq AccountToken /\ echo \in 0 .. Len(History)
      /\ reply \in Seq(STRING) /\ raw \in Seq(STRING) /\ text \in Seq(STRING)
      /\ got \in Seq(STRING) /\ sent \in Seq(STRING) /\ cut \in BOOLEAN /\ out \in Seq(Events)
      /\ reply \in Seq(Tokens) /\ (stage \in {"pick", "check"} => got = <<>>)
  BY DEF TextSound, TextTypeOK, Events
<1> HIDE DEF L, A
<1>2. CASE Pick
  <2> USE <1>2 DEF Pick
  <2>1. Accounts /\ stage' \in {"pick", "check", "failed"}
    <3>1. CASE Fail
      BY <1>1, <3>1 DEF Fail
    <3>2. CASE \E t \in Candidates(latest, tried) :
                 /\ latest' = Refreshed(latest, t)
                 /\ IF t \in open
                    THEN tried' = tried \cup {t} /\ UNCHANGED <<stage, token>>
                    ELSE stage' = "check" /\ token' = t /\ tried' = {}
                 /\ UNCHANGED open
      <4>1. PICK t \in Candidates(latest, tried) :
                 /\ latest' = Refreshed(latest, t)
                 /\ IF t \in open
                    THEN tried' = tried \cup {t} /\ UNCHANGED <<stage, token>>
                    ELSE stage' = "check" /\ token' = t /\ tried' = {}
                 /\ UNCHANGED open
        BY <3>2
      <4>2. t \in A
        BY CandidatesTyped DEF A
      <4>3. latest' \in L
        BY <1>1, <4>1, <4>2, RefreshedTyped DEF A, L
      <4> QED
        BY <1>1, <4>1, <4>2, <4>3
    <3> QED
      BY <3>1, <3>2
  <2>2. Quiet
    BY <1>1, <2>1 DEF Quiet, Fail
  <2>3. Opening \in Seq(Events)
    BY <1>1, OpeningIs
  <2>4. out' \in Seq(Events)
    BY <1>1, <2>3
  <2>5. TextTypeOK'
    BY <1>1, <2>1, <2>4 DEF TextTypeOK, Answer, L, A, Events
  <2> QED
    BY <1>1, <2>2, <2>5 DEF Answer
<1>3. CASE SkipOpen
  <2> USE <1>3 DEF SkipOpen
  <2>1. Accounts /\ stage' \in {"check", "failed"}
    <3>1. CASE Fail
      BY <1>1, <3>1 DEF Fail
    <3>2. CASE \E t \in Candidates(latest, tried \cup {token}) :
                 /\ latest' = Refreshed(latest, t)
                 /\ token' = t
                 /\ tried' = tried \cup {token}
                 /\ UNCHANGED <<stage, open>>
      <4>1. PICK t \in Candidates(latest, tried \cup {token}) :
                 /\ latest' = Refreshed(latest, t)
                 /\ token' = t
                 /\ tried' = tried \cup {token}
                 /\ UNCHANGED <<stage, open>>
        BY <3>2
      <4>2. t \in A
        BY CandidatesTyped DEF A
      <4>3. latest' \in L
        BY <1>1, <4>1, <4>2, RefreshedTyped DEF A, L
      <4> QED
        BY <1>1, <4>1, <4>2, <4>3
    <3> QED
      BY <3>1, <3>2
  <2>2. Quiet
    BY <1>1, <2>1 DEF Quiet, Fail
  <2>3. TextTypeOK'
    BY <1>1, <2>1 DEF TextTypeOK, Answer, L, A, Events
  <2> QED
    BY <1>1, <2>2, <2>3 DEF Answer
<1>4. CASE Ask
  <2> USE <1>4 DEF Ask
  <2>1. <<>> \in Seq(STRING) /\ <<>> \in Seq(Tokens) /\ 0 \in 0 .. Len(History)
    <3>1. Len(History) \in Nat
      BY TextAssumption, LenProperties DEF TextAssumption
    <3> QED
      BY <3>1, EmptySeq
  <2>2. CASE token \in tried
    <3>1. Quiet
      BY <1>1, <2>2 DEF Quiet, Fail
    <3>2. TextTypeOK'
      BY <1>1, <2>2 DEF TextTypeOK, Fail, Answer, L, A, Events
    <3> QED
      BY <1>1, <2>2, <3>1, <3>2 DEF Answer
  <2>3. CASE token \notin tried
    <3>1. Quiet
      BY <1>1, <2>3 DEF Quiet
    <3>2. TextTypeOK'
      BY <1>1, <2>1, <2>3 DEF TextTypeOK, NewAnswer, L, A, Events
    <3> QED
      BY <2>1, <2>3, <3>1, <3>2 DEF NewAnswer
  <2> QED
    BY <2>2, <2>3
<1>5. CASE Rejected
  <2> USE <1>5 DEF Rejected
  <2>1. token \in AccountToken /\ got = <<>>
    BY <1>1 DEF A, MayStartOver
  <2>2. token' \in A /\ latest' \in L /\ stage' \in {"check", "failed"}
    <3>1. ASSUME NEW g \in Generation, latest' = Refreshed(latest, <<token[1], g>>),
                 token' = <<token[1], g>>, stage' = "check"
          PROVE  token' \in A /\ latest' \in L /\ stage' \in {"check", "failed"}
      <4>1. <<token[1], g>> \in A
        BY <2>1 DEF A, AccountToken
      <4> QED
        BY <1>1, <3>1, <4>1, RefreshedTyped DEF A, L
    <3>2. ASSUME NEW after \in MarkedOrNot(token), NEW t \in Candidates(after, tried) \ {Anonymous},
                 latest' = Refreshed(after, t), token' = t, stage' = "check"
          PROVE  token' \in A /\ latest' \in L /\ stage' \in {"check", "failed"}
      <4>1. t \in A
        BY CandidatesTyped DEF A
      <4>2. after \in L
        BY <1>1, MarkedTyped DEF L
      <4> QED
        BY <3>2, <4>1, <4>2, RefreshedTyped DEF A, L
    <3>3. ASSUME NEW after \in MarkedOrNot(token), latest' = after, stage' = "failed", token' = token
          PROVE  token' \in A /\ latest' \in L /\ stage' \in {"check", "failed"}
      <4>1. after \in L
        BY <1>1, MarkedTyped DEF L
      <4> QED
        BY <1>1, <3>3, <4>1
    <3> QED
      BY <3>1, <3>2, <3>3
  <2>3. Quiet
    BY <2>1, <2>2 DEF Quiet
  <2>4. TextTypeOK'
    BY <1>1, <2>2 DEF TextTypeOK, Answer, L, A, Events
  <2> QED
    BY <1>1, <2>3, <2>4 DEF Answer
<1>6. CASE Breaks
  <2> USE <1>6 DEF Breaks
  <2>1. open' \subseteq AccountToken
    BY <1>1 DEF A
  <2>2. latest' \in L
    BY <1>1, MarkedTyped DEF L
  <2>3. Quiet
    BY DEF Quiet
  <2>4. TextTypeOK'
    BY <1>1, <2>1, <2>2 DEF TextTypeOK, Answer, L, A, Events
  <2> QED
    BY <1>1, <2>3, <2>4 DEF Answer
<1> QED
  BY <1>2, <1>3, <1>4, <1>5, <1>6

LEMMA QuietKeeps ==
  ASSUME TextSound, Quiet, TextTypeOK', reply' \in Seq(Tokens)
  PROVE  TextSound'
<1>1. /\ format' = format /\ got' = got /\ sent' = sent /\ cut' = cut /\ SentFits /\ EventsFit
      /\ format \in Formats
  BY DEF Quiet, TextSound, TextTypeOK
<1>2. SentFits'
  BY <1>1 DEF SentFits
<1>3. stage' \in {"pick", "check"} => got' = <<>>
  BY DEF Quiet, TextSound
<1>4. EventsFit'
  <2>1. CASE stage = "pick" /\ stage' = "check"
    <3>1. out' = Opening /\ got = <<>>
      BY <2>1 DEF Quiet
    <3>2. ~IsIn("<", got)
      BY <3>1 DEF IsIn, ToSet
    <3>3. sent = <<>>
      BY <1>1, <3>1, <3>2 DEF SentFits
    <3>4. /\ Opening \in Seq(Events) /\ Said(Opening) = <<>>
          /\ Len(Opening) = IF format = "chat" THEN 0 ELSE IF format = "tools" THEN 1 ELSE 2
          /\ format # "chat" => Opening[1] = [kind |-> "begin", index |-> 0, text |-> <<>>]
          /\ format \notin {"chat", "tools"} =>
                 Opening[2] = [kind |-> "start", index |-> 0, text |-> <<>>]
      BY <1>1, OpeningIs
    <3>5. \A n \in DOMAIN Opening : Opening[n].kind \in {"begin", "start", "delta"}
      <4>1. DOMAIN Opening = 1 .. Len(Opening)
        BY <3>4, LenProperties
      <4>2. CASE format = "chat"
        BY <3>4, <4>1, <4>2
      <4>3. CASE format = "tools"
        <5>1. \A n \in 1 .. 1 : n = 1
          OBVIOUS
        <5>2. Len(Opening) = 1 /\ Opening[1].kind = "begin"
          BY <3>4, <4>3
        <5> QED
          BY <4>1, <5>1, <5>2
      <4>4. CASE format \notin {"chat", "tools"}
        <5>1. \A n \in 1 .. 2 : n = 1 \/ n = 2
          OBVIOUS
        <5>2. Len(Opening) = 2 /\ Opening[1].kind = "begin" /\ Opening[2].kind = "start"
          BY <3>4, <4>4
        <5> QED
          BY <4>1, <5>1, <5>2
      <4> QED
        BY <4>2, <4>3, <4>4
    <3>6. format # "chat" => /\ Opening # <<>> /\ Last(Opening).index = 0
                             /\ Last(Opening).kind = "begin" <=> format = "tools"
      <4>1. CASE format = "tools"
        <5>1. Len(Opening) = 1 /\ Opening[1].kind = "begin" /\ Opening[1].index = 0
          BY <3>4, <4>1
        <5>2. Len(Opening) # 0
          BY <5>1
        <5>3. Opening # <<>>
          BY <3>4, <5>2, EmptySeq
        <5> QED
          BY <4>1, <5>1, <5>3 DEF Last
      <4>2. CASE format \notin {"chat", "tools"}
        <5>1. Len(Opening) = 2 /\ Opening[2].kind = "start" /\ Opening[2].index = 0
          BY <3>4, <4>2
        <5>2. Len(Opening) # 0
          BY <5>1
        <5>3. Opening # <<>>
          BY <3>4, <5>2, EmptySeq
        <5> QED
          BY <4>2, <5>1, <5>3 DEF Last
      <4> QED
        BY <4>1, <4>2
    <3> QED
      BY <1>1, <2>1, <3>1, <3>3, <3>4, <3>5, <3>6 DEF EventsFit
  <2>2. CASE ~(stage = "pick" /\ stage' = "check")
    <3>1. out' = out /\ stage # "done" /\ stage' # "done"
      BY <2>2 DEF Quiet
    <3>2. stage' = "pick" => stage = "pick"
      BY DEF Quiet
    <3>3. stage' \in {"check", "stream"} => stage \in {"check", "stream"}
      BY <2>2 DEF Quiet
    <3> QED
      BY <1>1, <3>1, <3>2, <3>3 DEF EventsFit
  <2> QED
    BY <2>1, <2>2
<1> QED
  BY <1>2, <1>3, <1>4 DEF TextSound

LEMMA DoneKeeps ==
  ASSUME TextSound, Done
  PROVE  TextSound'
<1> USE DEF Done
<1>1. /\ UNCHANGED <<format, token, tried, latest, open, reply, echo, raw, text, got, sent, cut>>
      /\ stage = "stream" /\ stage' = "done" /\ out' = out \o Closing
  BY DEF Answer
<1>2. TextTypeOK /\ SentFits /\ EventsFit /\ out \in Seq(Events) /\ sent \in Seq(STRING)
  BY DEF TextSound, TextTypeOK, Events
<1>3. Closing \in Seq(Events) /\ (format # "tools" => Said(Closing) = <<>>)
  BY <1>2, ClosingTyped
<1>4. out' \in Seq(Events)
  BY <1>1, <1>2, <1>3, ConcatProperties
<1>5. TextTypeOK'
  BY <1>1, <1>2, <1>4 DEF TextTypeOK, Events
<1>6. SentFits'
  BY <1>1, <1>2 DEF SentFits
<1>7. EventsFit'
  <2>1. ASSUME format # "tools" PROVE Said(out') = sent
    <3>1. Said(out') = Said(out) \o Said(Closing)
      BY <1>1, <1>2, <1>3, SaidConcat
    <3>2. Said(out) = sent
      BY <1>1, <1>2 DEF EventsFit
    <3> QED
      BY <1>2, <1>3, <2>1, <3>1, <3>2, ConcatEmptySeq
  <2> QED
    BY <1>1, <2>1 DEF EventsFit
<1> QED
  BY <1>1, <1>5, <1>6, <1>7 DEF TextSound

LEMMA EchoKeeps ==
  ASSUME TextSound, stage = "stream", echo' \in 0 .. Len(History), raw' = <<>>, text' = <<>>,
         UNCHANGED <<format, stage, token, tried, latest, open, reply, got, sent, cut, out>>
  PROVE  TextSound'
<1>1. <<>> \in Seq(STRING)
  BY EmptySeq
<1>2. TextTypeOK'
  BY <1>1 DEF TextSound, TextTypeOK
<1>3. SentFits' /\ EventsFit'
  BY DEF TextSound, SentFits, EventsFit
<1> QED
  BY <1>2, <1>3 DEF TextSound

LEMMA TextSteps ==
  ASSUME TextSound, [TextNext]_textVars
  PROVE  TextSound'
<1>1. CASE Pick \/ SkipOpen \/ Ask \/ Rejected \/ Breaks
  BY <1>1, AccountSteps, QuietKeeps
<1>2. CASE \/ \E more \in Pieces : AppendText(more) \/ WholeText(more)
           \/ \E s \in Texts : ReplaceText(s)
           \/ Echo
  BY <1>2, WhatIsSaid, SayKeeps, EchoKeeps
<1>3. CASE Done
  BY <1>3, DoneKeeps
<1>4. CASE UNCHANGED textVars
  BY <1>4 DEF textVars, TextSound, TextTypeOK, SentFits, EventsFit
<1> QED
  BY <1>1, <1>2, <1>3, <1>4 DEF TextNext
-----------------------------------------------------------------------------
(* Requests of text of an upstream that takes nothing back: the answer so  *)
(* far is what is held of it.                                              *)

\* The deltas add up to the text that can be shown; where an annotation may lose a space
\* before it, they are that and words in front of it.
AnswerFits ==
  stage \in {"stream", "done"} =>
    /\ raw = reply
    /\ text = Sanitized(reply)
    /\ ~Loose => Proper(reply)
    /\ NoHugs => got = text
    /\ ~Loose => \E before \in Seq(STRING) : NoMarks(before) /\ got = before \o text

\* Without spaces, what was passed on is all that comes before a call, and the beginning of
\* the tag where that came alone.
Spaceless == " " \notin Tokens

WordsSent ==
  Spaceless /\ format = "tools" /\ stage \in {"stream", "done"} =>
    sent = IF ~IsIn("<", got) THEN got
           ELSE IF cut THEN Append(Words(got), "<") ELSE Words(got)

LEMMA SpacelessHugs ==
  Spaceless => NoHugs
BY Zenon DEF Spaceless, NoHugs

LEMMA NothingShown ==
  /\ <<>> \in Seq(STRING) /\ <<>> \in Seq(Tokens)
  /\ Sanitized(<<>>) = <<>>
  /\ Proper(<<>>) /\ NoMarks(<<>>) /\ ~IsIn("<", <<>>)
<1>1. <<>> \in Seq(STRING) /\ <<>> \in Seq(Tokens) /\ Len(<<>>) = 0
  BY EmptySeq
<1>2. Sanitized(<<>>) \in Seq(STRING) /\ Len(Sanitized(<<>>)) = 0
  <2>1. KeptPlaces(<<>>) \in SUBSET DOMAIN <<>> /\ Sanitized(<<>>) = Selected(<<>>, KeptPlaces(<<>>))
    BY <1>1, SanitizedIs
  <2>2. /\ Selected(<<>>, KeptPlaces(<<>>)) \in Seq(STRING)
        /\ Len(Selected(<<>>, KeptPlaces(<<>>))) = Cardinality(KeptPlaces(<<>>))
        /\ Cardinality(KeptPlaces(<<>>)) \in 0 .. Len(<<>>)
    BY <1>1, <2>1, SelectedIs
  <2> QED
    BY <1>1, <2>1, <2>2
<1>3. Sanitized(<<>>) = <<>>
  BY <1>2, EmptySeq
<1>4. Proper(<<>>) /\ NoMarks(<<>>) /\ ~IsIn("<", <<>>)
  BY DEF Proper, NoMarks, IsIn, ToSet
<1> QED
  BY <1>1, <1>3, <1>4

LEMMA AnswerGrows ==
  ASSUME TextSound, AnswerFits, ~Rewrites, HistoryApart,
         \/ \E more \in Pieces : AppendText(more) \/ WholeText(more)
         \/ \E s \in Texts : ReplaceText(s)
  PROVE  \E more \in Seq(Tokens) :
            /\ stage = "stream"
            /\ reply' = reply \o more
            /\ ~Loose => Proper(reply \o more)
            /\ Say(reply \o more)
<1>1. reply \in Seq(Tokens) /\ reply \in Seq(STRING)
  BY DEF TextSound, TextTypeOK
<1>2. ASSUME NEW more \in Pieces, AppendText(more)
      PROVE  more \in Seq(Tokens) /\ stage = "stream" /\ reply' = reply \o more
             /\ (~Loose => Proper(reply \o more)) /\ Say(reply \o more)
  <2>1. more \in Seq(Tokens)
    BY BoundedTyped DEF Pieces
  <2>2. raw = reply
    BY <1>2 DEF AnswerFits, AppendText
  <2> QED
    BY <1>2, <2>1, <2>2 DEF AppendText, MayWrite
<1>3. ASSUME NEW more \in Pieces, WholeText(more)
      PROVE  more \in Seq(Tokens) /\ stage = "stream" /\ reply' = reply \o more
             /\ (~Loose => Proper(reply \o more)) /\ Say(reply \o more)
  <2>1. more \in Seq(Tokens) /\ more \in Seq(STRING) /\ reply \o more \in Seq(Tokens)
    <3>1. more \in Seq(Tokens)
      BY BoundedTyped DEF Pieces
    <3> QED
      BY <1>1, <3>1, TextsAreStrings, ConcatProperties
  <2>2. PICK prefix \in {<<>>, HistoryText} : Say(Unprefixed((prefix \o reply) \o more))
    BY <1>3 DEF WholeText
  <2>3. Unprefixed((prefix \o reply) \o more) = reply \o more
    <3>1. CASE prefix = <<>>
      <4>1. prefix \o reply = reply
        BY <1>1, <3>1, ConcatEmptySeq
      <4> QED
        BY <2>1, <4>1, AnswerIsLeft
    <3>2. CASE prefix = HistoryText
      <4>1. (HistoryText \o reply) \o more = HistoryText \o (reply \o more)
        BY <1>1, <2>1, HistoryTyped, ConcatAssociative, SMTT(30)
      <4> QED
        BY <2>1, <3>2, <4>1, AnswerIsLeft
    <3> QED
      BY <2>2, <3>1, <3>2
  <2> QED
    BY <1>3, <2>1, <2>2, <2>3 DEF WholeText, MayWrite
<1>4. ASSUME NEW s \in Texts, ReplaceText(s)
      PROVE  \E more \in Seq(Tokens) :
                /\ stage = "stream" /\ reply' = reply \o more
                /\ (~Loose => Proper(reply \o more)) /\ Say(reply \o more)
  <2>1. PICK more \in BoundedSeq(Written, Room) : s = reply \o more
    BY DEF Texts
  <2>2. more \in Seq(Tokens)
    BY BoundedTyped
  <2>3. reply \o more \in Seq(Tokens)
    BY <1>1, <2>2, ConcatProperties
  <2>4. Unprefixed(s) = s
    BY <2>1, <2>3, AnswerIsLeft
  <2>5. Say(s) /\ MayWrite(s) /\ stage = "stream" /\ reply' = s
    BY <1>4, <2>4 DEF ReplaceText
  <2> QED
    BY <2>1, <2>2, <2>5 DEF MayWrite
<1> QED
  BY <1>2, <1>3, <1>4

LEMMA GrownAnswerFits ==
  ASSUME TextSound, AnswerFits, stage = "stream", NEW more \in Seq(Tokens),
         reply' = reply \o more, ~Loose => Proper(reply \o more), Say(reply \o more)
  PROVE  AnswerFits'
<1> DEFINE r == reply \o more
           next == Sanitized(r)
<1>1. /\ reply \in Seq(Tokens) /\ reply \in Seq(STRING) /\ r \in Seq(Tokens) /\ r \in Seq(STRING)
      /\ text \in Seq(STRING) /\ got \in Seq(STRING) /\ more \in Seq(STRING)
  <2>1. reply \in Seq(Tokens) /\ text \in Seq(STRING) /\ got \in Seq(STRING)
    BY DEF TextSound, TextTypeOK
  <2> QED
    BY <2>1, ConcatProperties, TextsAreStrings
<1>2. IsPrefix(reply, r)
  BY <1>1, PrefixOfMore
<1>3. /\ text = Sanitized(reply) /\ (~Loose => Proper(reply)) /\ (NoHugs => got = text)
      /\ ~Loose => \E before \in Seq(STRING) : NoMarks(before) /\ got = before \o text
  BY DEF AnswerFits
<1>4. /\ raw' = r /\ text' = next /\ stage' = stage
      /\ got' = IF next = text THEN got ELSE got \o New(next)
  BY DEF Say
<1> HIDE DEF r
<1>5. next \in Seq(STRING)
  BY <1>1, SanitizedIs
<1> HIDE DEF next
<1>6. ASSUME IsPrefix(text, next)
      PROVE  /\ got' = got \o After(next, Len(text))
             /\ text \o After(next, Len(text)) = next
             /\ After(next, Len(text)) \in Seq(STRING)
  <2>1. Len(text) \in Nat /\ Len(next) \in Nat
    BY <1>1, <1>5, LenProperties
  <2>2. After(next, Len(text)) \in Seq(STRING) /\ text \o After(next, Len(text)) = next
    BY <1>1, <1>5, <1>6, <2>1, AfterIs, PrefixAndRest
  <2>3. CASE next = text
    <3>1. Len(text) >= Len(next)
      BY <2>1, <2>3
    <3>2. After(next, Len(text)) = <<>>
      BY <1>5, <2>1, <3>1, AfterIs
    <3> QED
      BY <1>1, <1>4, <2>2, <2>3, <3>2, ConcatEmptySeq
  <2>4. CASE next # text
    BY <1>4, <1>6, <2>2, <2>4 DEF New
  <2> QED
    BY <2>3, <2>4
<1>7. ASSUME NoHugs PROVE got' = next
  <2>1. IsPrefix(text, next)
    BY <1>1, <1>2, <1>3, <1>7, ShownGrows DEF next
  <2> QED
    BY <1>3, <1>6, <1>7, <2>1
<1>8. ASSUME ~Loose
      PROVE  \E before \in Seq(STRING) : NoMarks(before) /\ got' = before \o next
  <2>1. PICK before \in Seq(STRING) : NoMarks(before) /\ got = before \o text
    BY <1>3, <1>8
  <2>2. CASE IsPrefix(text, next)
    <3> DEFINE rest == After(next, Len(text))
    <3>0. rest \in Seq(STRING)
      BY <1>6, <2>2
    <3>1. (before \o text) \o rest = before \o (text \o rest)
      <4> HIDE DEF rest
      <4>1. text \in Seq(STRING)
        BY <1>1
      <4> QED
        BY <3>0, <4>1, ConcatAssociative, SMTT(30)
    <3>2. got' = before \o next
      BY <1>6, <2>1, <2>2, <3>1
    <3> QED
      BY <2>1, <3>2
  <2>3. CASE ~IsPrefix(text, next)
    <3>1. got' = got \o next
      <4>1. next # text
        BY <1>1, <2>3, PrefixOfSelf
      <4> QED
        BY <1>4, <2>3, <4>1 DEF New
    <3>2. NoMarks(text)
      <4> SUFFICES ASSUME ~NoMarks(text) PROVE FALSE
        OBVIOUS
      <4>1. Proper(reply) /\ Proper(r)
        BY <1>3, <1>8 DEF r
      <4>2. PICK i \in DOMAIN text : text[i] \in {"<", ">"}
        BY DEF NoMarks
      <4>3. PICK k \in DOMAIN reply : text[i] = reply[k]
        BY <1>1, <1>3, <4>1, SanitizedProper
      <4>4. ~NoMarks(reply)
        BY <4>2, <4>3 DEF NoMarks
      <4>5. IsPrefix(Sanitized(reply), Sanitized(r))
        BY <1>1, <1>2, <4>1, <4>4, GrowsBehindCall
      <4> QED
        BY <1>3, <2>3, <4>5 DEF next
    <3>3. NoMarks(before \o text)
      <4>1. /\ before \o text \in Seq(STRING) /\ Len(before) \in Nat /\ Len(text) \in Nat
            /\ Len(before \o text) = Len(before) + Len(text)
            /\ DOMAIN (before \o text) = 1 .. Len(before) + Len(text)
            /\ DOMAIN before = 1 .. Len(before) /\ DOMAIN text = 1 .. Len(text)
            /\ \A i \in 1 .. Len(before) + Len(text) :
                  (before \o text)[i] = IF i <= Len(before) THEN before[i] ELSE text[i - Len(before)]
        BY <1>1, ConcatProperties, LenProperties
      <4>2. \A i \in 1 .. Len(before) + Len(text) :
               IF i <= Len(before) THEN i \in 1 .. Len(before) ELSE i - Len(before) \in 1 .. Len(text)
        BY <4>1
      <4> QED
        BY <2>1, <3>2, <4>1, <4>2 DEF NoMarks
    <3> QED
      BY <1>1, <2>1, <3>1, <3>3
  <2> QED
    BY <2>2, <2>3
<1>9. reply' = r /\ text' = Sanitized(r) /\ (~Loose => Proper(r))
  BY <1>4 DEF r, next
<1>10. raw' = reply' /\ text' = Sanitized(reply') /\ (~Loose => Proper(reply'))
  BY <1>4, <1>9
<1> QED
  BY <1>4, <1>7, <1>8, <1>10 DEF AnswerFits

LEMMA EchoedAnswerFits ==
  ASSUME TextSound, AnswerFits, Echo
  PROVE  /\ AnswerFits'
         /\ UNCHANGED <<format, stage, got, sent, cut, out>>
<1> DEFINE m == History[echo + 1]
<1>1. stage = "stream" /\ reply = <<>> /\ echo + 1 \in 1 .. Len(History)
  <2>1. Len(History) \in Nat
    BY TextAssumption, LenProperties DEF TextAssumption
  <2> QED
    BY <2>1 DEF Echo, TextSound, TextTypeOK
<1>2. m \in Seq(STRING) /\ (Unprefixed(m) = m \/ Unprefixed(m) = <<>>)
  BY <1>1, EchoGoes
<1>3. raw = <<>> /\ text = <<>>
  BY <1>1, NothingShown DEF AnswerFits
<1>4. /\ UNCHANGED <<format, stage, got, sent, cut, out, reply>>
      /\ raw' = <<>> /\ text' = <<>>
  <2>1. CASE Unprefixed(m) = m
    BY <2>1 DEF Echo
  <2>2. CASE Unprefixed(m) # m
    <3>1. Unprefixed(m) = <<>>
      BY <1>2, <2>2
    <3>2. Say(Unprefixed(m)) /\ reply' = reply
      BY <2>2 DEF Echo
    <3>3. Say(<<>>)
      BY <3>1, <3>2
    <3> QED
      BY <1>3, <3>2, <3>3, NothingShown DEF Say
  <2> QED
    BY <2>1, <2>2
<1>5. AnswerFits'
  BY <1>1, <1>3, <1>4 DEF AnswerFits
<1> QED
  BY <1>4, <1>5

LEMMA QuietAnswerFits ==
  ASSUME AnswerFits, Quiet
  PROVE  AnswerFits'
<1>1. CASE UNCHANGED Answer /\ (stage' = "stream" => stage = "stream")
  <2>1. /\ UNCHANGED <<reply, raw, text, got>>
        /\ stage' \in {"stream", "done"} => stage = "stream"
    BY <1>1 DEF Quiet, Answer
  <2> QED
    BY <2>1 DEF AnswerFits
<1>2. CASE NewAnswer /\ got = <<>>
  <2>1. reply' = <<>> /\ raw' = <<>> /\ text' = <<>> /\ got' = <<>>
    BY <1>2 DEF NewAnswer, Quiet
  <2>2. <<>> = <<>> \o <<>>
    BY EmptySeq, ConcatEmptySeq
  <2>3. \E before \in Seq(STRING) : NoMarks(before) /\ got' = before \o text'
    BY <2>1, <2>2, NothingShown
  <2> QED
    BY <2>1, <2>3, NothingShown DEF AnswerFits
<1> QED
  BY <1>1, <1>2 DEF Quiet

LEMMA AnswerStarts ==
  ASSUME TextInit
  PROVE  AnswerFits
BY DEF TextInit, AnswerFits

LEMMA AnswerSteps ==
  ASSUME TextSound, AnswerFits, ~Rewrites, HistoryApart, [TextNext]_textVars
  PROVE  AnswerFits'
<1>1. CASE Pick \/ SkipOpen \/ Ask \/ Rejected \/ Breaks
  BY <1>1, AccountSteps, QuietAnswerFits
<1>2. CASE \/ \E more \in Pieces : AppendText(more) \/ WholeText(more)
           \/ \E s \in Texts : ReplaceText(s)
  BY <1>2, AnswerGrows, GrownAnswerFits
<1>3. CASE Echo
  BY <1>3, EchoedAnswerFits
<1>4. CASE Done
  BY <1>4 DEF Done, Answer, AnswerFits
<1>5. CASE UNCHANGED textVars
  BY <1>5 DEF textVars, AnswerFits
<1> QED
  BY <1>1, <1>2, <1>3, <1>4, <1>5 DEF TextNext
-----------------------------------------------------------------------------
(* Blocks. *)

\* An event that may come behind another one.
Follows(before, e) ==
  LET between == before.kind \in {"begin", "stop"} IN
  /\ e.kind # "begin" /\ before.kind # "end"
  /\ e.kind = "start" =>
        between /\ e.index = IF before.kind = "begin" THEN 0 ELSE before.index + 1
  /\ e.kind \in {"delta", "call", "stop"} => ~between /\ e.index = before.index
  /\ e.kind = "end" => between

\* Events that may come behind one, each behind the one before it.
Chain(before, events) ==
  \A n \in 1 .. Len(events) : Follows(IF n = 1 THEN before ELSE events[n - 1], events[n])

LastOf(before, events) == IF Len(events) = 0 THEN before ELSE events[Len(events)]

LEMMA BlocksAdd ==
  ASSUME BlocksWellFormed, out \in Seq(Events), out # <<>>,
         NEW events \in Seq(Events), Chain(Last(out), events),
         format' = format, out' = out \o events
  PROVE  BlocksWellFormed'
<1> SUFFICES ASSUME format # "chat", NEW n \in DOMAIN out'
             PROVE  /\ out'[n].kind = "begin" <=> n = 1
                    /\ n # 1 => Follows(out'[n - 1], out'[n])
                    /\ out'[n].kind = "end" => n = Len(out')
  BY DEF BlocksWellFormed, Follows
<1> DEFINE l == Len(out)  k == Len(events)
<1>1. /\ out' \in Seq(Events) /\ l \in Nat /\ k \in Nat
      /\ DOMAIN out = 1 .. l /\ DOMAIN out' = 1 .. l + k /\ Len(out') = l + k
      /\ \A i \in 1 .. l : out'[i] = out[i]
      /\ \A i \in l + 1 .. l + k : out'[i] = events[i - l]
  BY EventsAdd
<1>2. l > 0 /\ Last(out) = out[l]
  <2>1. Len(out) \in Nat \ {0}
    BY EmptySeq
  <2> QED
    BY <2>1 DEF Last
<1> HIDE DEF l, k
<1>3. \A i \in 1 .. l : /\ out[i].kind = "begin" <=> i = 1
                        /\ i # 1 => Follows(out[i - 1], out[i])
                        /\ out[i].kind = "end" => i = l
  <2> TAKE i \in 1 .. l
  <2>1. /\ out[i].kind = "begin" <=> i = 1
        /\ out[i].kind = "end" => i = l
    BY <1>1 DEF BlocksWellFormed, l
  <2>2. ASSUME i # 1 PROVE Follows(out[i - 1], out[i])
    <3>1. i - 1 \in 1 .. l /\ i - 1 # l
      BY <1>1, <2>2
    <3>2. out[i - 1].kind # "end"
      BY <1>1, <3>1 DEF BlocksWellFormed, l
    <3> QED
      BY <1>1, <2>1, <2>2, <3>2 DEF BlocksWellFormed, Follows
  <2> QED
    BY <2>1, <2>2
<1>4. CASE n <= l
  <2>1. n \in 1 .. l /\ (n # 1 => n - 1 \in 1 .. l)
    BY <1>1, <1>4
  <2>2. out'[n] = out[n] /\ (n # 1 => out'[n - 1] = out[n - 1])
    BY <1>1, <2>1
  <2>3. ASSUME out'[n].kind = "end" PROVE n = Len(out')
    <3>1. n = l
      BY <1>3, <2>1, <2>2, <2>3
    <3>2. k = 0
      <4> SUFFICES ASSUME k # 0 PROVE FALSE
        OBVIOUS
      <4>1. 1 \in 1 .. k
        BY <1>1
      <4>2. Follows(Last(out), events[1])
        BY <4>1 DEF Chain, k
      <4> QED
        BY <1>2, <2>2, <2>3, <3>1, <4>2 DEF Follows
    <3> QED
      BY <1>1, <3>1, <3>2
  <2> QED
    BY <1>3, <2>1, <2>2, <2>3
<1>5. CASE ~(n <= l)
  <2> DEFINE i == n - l
  <2>1. i \in 1 .. k /\ n \in l + 1 .. l + k /\ n # 1
    BY <1>1, <1>2, <1>5
  <2>2. out'[n] = events[i]
    BY <1>1, <2>1
  <2>3. out'[n - 1] = IF i = 1 THEN out[l] ELSE events[i - 1]
    <3>1. CASE i = 1
      <4>1. n - 1 = l /\ l \in 1 .. l
        BY <1>1, <1>2, <2>1, <3>1
      <4> QED
        BY <1>1, <3>1, <4>1
    <3>2. CASE i # 1
      <4>1. n - 1 \in l + 1 .. l + k /\ (n - 1) - l = i - 1
        BY <1>1, <2>1, <3>2, SMTT(30)
      <4> QED
        BY <1>1, <3>2, <4>1
    <3> QED
      BY <3>1, <3>2
  <2> HIDE DEF i
  <2>4. Follows(out'[n - 1], out'[n])
    BY <1>2, <2>1, <2>2, <2>3 DEF Chain, k
  <2>5. out'[n].kind # "begin"
    BY <2>4 DEF Follows
  <2>6. ASSUME out'[n].kind = "end" PROVE i = k
    <3> SUFFICES ASSUME i # k PROVE FALSE
      OBVIOUS
    <3>1. i + 1 \in 1 .. k /\ i + 1 # 1 /\ (i + 1) - 1 = i
      BY <1>1, <2>1
    <3>2. Follows(events[i], events[i + 1])
      <4>1. Follows(events[(i + 1) - 1], events[i + 1])
        BY <3>1 DEF Chain, k
      <4> QED
        BY <3>1, <4>1
    <3> QED
      BY <2>2, <2>6, <3>2 DEF Follows
  <2>7. i = k => n = Len(out')
    <3>1. n = l + i
      BY <1>1, <2>1 DEF i
    <3> QED
      BY <1>1, <3>1
  <2> QED
    BY <2>1, <2>4, <2>5, <2>6, <2>7
<1> QED
  BY <1>1, <1>4, <1>5

LEMMA ChainNone ==
  ASSUME NEW before
  PROVE  /\ <<>> \in Seq(Events)
         /\ Chain(before, <<>>) /\ LastOf(before, <<>>) = before
<1>1. <<>> \in Seq(Events) /\ Len(<<>>) = 0
  BY EmptySeq
<1> QED
  BY <1>1 DEF Chain, LastOf

LEMMA ChainOne ==
  ASSUME NEW before, NEW what \in EventKind, NEW i \in Nat, NEW s \in Seq(STRING),
         Follows(before, [kind |-> what, index |-> i, text |-> s])
  PROVE  /\ Event(what, i, s) \in Seq(Events)
         /\ Chain(before, Event(what, i, s))
         /\ LastOf(before, Event(what, i, s)) = [kind |-> what, index |-> i, text |-> s]
<1>1. /\ Event(what, i, s) \in Seq(Events) /\ Len(Event(what, i, s)) = 1
      /\ Event(what, i, s)[1] = [kind |-> what, index |-> i, text |-> s]
  BY SaidOne
<1>2. \A n \in 1 .. 1 : n = 1
  OBVIOUS
<1> QED
  BY <1>1, <1>2 DEF Chain, LastOf

LEMMA ChainMore ==
  ASSUME NEW before, NEW a \in Seq(Events), NEW b \in Seq(Events),
         Chain(before, a), Chain(LastOf(before, a), b)
  PROVE  /\ a \o b \in Seq(Events)
         /\ Chain(before, a \o b)
         /\ LastOf(before, a \o b) = LastOf(LastOf(before, a), b)
<1> DEFINE c == a \o b  l == Len(a)  k == Len(b)
<1>1. /\ c \in Seq(Events) /\ l \in Nat /\ k \in Nat /\ Len(c) = l + k
      /\ \A i \in 1 .. l : c[i] = a[i]
      /\ \A i \in l + 1 .. l + k : c[i] = b[i - l]
  BY EventsAdd
<1> HIDE DEF c
<1>2. ASSUME NEW n \in 1 .. l + k
      PROVE  Follows(IF n = 1 THEN before ELSE c[n - 1], c[n])
  <2>1. CASE n <= l
    <3>1. n \in 1 .. l /\ (n # 1 => n - 1 \in 1 .. l)
      BY <1>1, <2>1
    <3>2. c[n] = a[n] /\ (n # 1 => c[n - 1] = a[n - 1])
      BY <1>1, <3>1
    <3>3. Follows(IF n = 1 THEN before ELSE a[n - 1], a[n])
      BY <3>1 DEF Chain
    <3> QED
      BY <3>2, <3>3
  <2>2. CASE ~(n <= l)
    <3> DEFINE i == n - l
    <3>1. i \in 1 .. k /\ n \in l + 1 .. l + k
      BY <1>1, <2>2
    <3>2. c[n] = b[i]
      BY <1>1, <3>1
    <3>3. (IF n = 1 THEN before ELSE c[n - 1]) = (IF i = 1 THEN LastOf(before, a) ELSE b[i - 1])
      <4>1. CASE i = 1 /\ l = 0
        BY <1>1, <4>1 DEF LastOf
      <4>2. CASE i = 1 /\ l # 0
        <5>1. n # 1 /\ n - 1 = l /\ l \in 1 .. l
          BY <1>1, <4>2
        <5> QED
          BY <1>1, <4>2, <5>1 DEF LastOf
      <4>3. CASE i # 1
        <5>1. n - 1 \in l + 1 .. l + k /\ (n - 1) - l = i - 1 /\ n # 1
          BY <1>1, <3>1, <4>3
        <5> QED
          BY <1>1, <4>3, <5>1
      <4> QED
        BY <4>1, <4>2, <4>3
    <3>4. Follows(IF i = 1 THEN LastOf(before, a) ELSE b[i - 1], b[i])
      BY <3>1 DEF Chain
    <3> QED
      BY <3>2, <3>3, <3>4
  <2> QED
    BY <2>1, <2>2
<1>3. Chain(before, c)
  BY <1>1, <1>2 DEF Chain
<1>4. LastOf(before, c) = LastOf(LastOf(before, a), b)
  <2>1. CASE k = 0
    BY <1>1, <2>1 DEF LastOf
  <2>2. CASE k # 0
    <3>1. l + k \in l + 1 .. l + k /\ (l + k) - l = k /\ l + k # 0
      BY <1>1, <2>2
    <3>2. c[l + k] = b[k]
      BY <1>1, <3>1
    <3> QED
      BY <1>1, <2>2, <3>1, <3>2 DEF LastOf
  <2> QED
    BY <2>1, <2>2
<1> QED
  BY <1>1, <1>3, <1>4 DEF c

LEMMA ChainOfCalls ==
  ASSUME NEW before \in Events, before.kind \in {"begin", "stop"}, NEW first \in Nat,
         first = IF before.kind = "begin" THEN 0 ELSE before.index + 1,
         NEW n \in Nat, n > 0
  PROVE  /\ Chain(before, Blocks(first, n))
         /\ LastOf(before, Blocks(first, n)).kind = "stop"
<1> DEFINE b == Blocks(first, n)
<1>1. /\ b \in Seq(Events) /\ Len(b) = 3 * n
      /\ \A e \in 1 .. 3 * n :
              /\ b[e].text = <<>>
              /\ b[e].index = first + (e - 1) \div 3
              /\ (e - 1) % 3 = 0 => b[e].kind = "start"
              /\ (e - 1) % 3 = 1 => b[e].kind = "call"
              /\ (e - 1) % 3 = 2 => b[e].kind = "stop"
  BY BlocksAre, ZenonT(60)
<1> HIDE DEF b
<1>2. ASSUME NEW e \in 1 .. 3 * n
      PROVE  Follows(IF e = 1 THEN before ELSE b[e - 1], b[e])
  <2>1. CASE e = 1
    <3>1. (1 - 1) % 3 = 0 /\ (1 - 1) \div 3 = 0 /\ first + 0 = first
      OBVIOUS
    <3>2. b[1].kind = "start" /\ b[1].index = first
      BY <1>1, <2>1, <3>1
    <3> QED
      BY <2>1, <3>2 DEF Follows
  <2>2. CASE e # 1
    <3>1. e - 1 \in 1 .. 3 * n
      BY <2>2
    <3>2. \/ (e - 1) % 3 = 0 /\ ((e - 1) - 1) % 3 = 2 /\ (e - 1) \div 3 = ((e - 1) - 1) \div 3 + 1
          \/ (e - 1) % 3 = 1 /\ ((e - 1) - 1) % 3 = 0 /\ (e - 1) \div 3 = ((e - 1) - 1) \div 3
          \/ (e - 1) % 3 = 2 /\ ((e - 1) - 1) % 3 = 1 /\ (e - 1) \div 3 = ((e - 1) - 1) \div 3
      BY <2>2
    <3>3. (e - 1) \div 3 \in Nat /\ ((e - 1) - 1) \div 3 \in Nat
      BY <3>1
    <3>4. b[e].index = first + (e - 1) \div 3 /\ b[e - 1].index = first + ((e - 1) - 1) \div 3
      BY <1>1, <3>1
    <3> DEFINE x == (e - 1) \div 3  y == ((e - 1) - 1) \div 3
    <3>5. CASE (e - 1) % 3 = 0 /\ ((e - 1) - 1) % 3 = 2 /\ x = y + 1
      <4>1. b[e].kind = "start" /\ b[e - 1].kind = "stop"
        BY <1>1, <3>1, <3>5
      <4> HIDE DEF x, y
      <4>2. first + x = (first + y) + 1
        BY <3>3, <3>5 DEF x, y
      <4> QED
        BY <2>2, <3>4, <4>1, <4>2 DEF Follows, x, y
    <3>6. CASE (e - 1) % 3 = 1 /\ ((e - 1) - 1) % 3 = 0 /\ x = y
      <4>1. b[e].kind = "call" /\ b[e - 1].kind = "start"
        BY <1>1, <3>1, <3>6
      <4> QED
        BY <2>2, <3>4, <3>6, <4>1 DEF Follows
    <3>7. CASE (e - 1) % 3 = 2 /\ ((e - 1) - 1) % 3 = 1 /\ x = y
      <4>1. b[e].kind = "stop" /\ b[e - 1].kind = "call"
        BY <1>1, <3>1, <3>7
      <4> QED
        BY <2>2, <3>4, <3>7, <4>1 DEF Follows
    <3> QED
      BY <3>2, <3>5, <3>6, <3>7
  <2> QED
    BY <2>1, <2>2
<1>3. LastOf(before, b).kind = "stop"
  <2>1. 3 * n \in 1 .. 3 * n /\ 3 * n # 0 /\ (3 * n - 1) % 3 = 2
    OBVIOUS
  <2> QED
    BY <1>1, <2>1 DEF LastOf
<1>4. Chain(before, b)
  BY <1>1, <1>2 DEF Chain
<1> QED
  BY <1>3, <1>4 DEF b
-----------------------------------------------------------------------------
(* The blocks of a request, and how it ends. *)

\* The event that the next one comes behind.
LEMMA OpenBlock ==
  ASSUME TextSound, format # "chat", stage \in {"check", "stream"}
  PROVE  /\ out \in Seq(Events) /\ out # <<>> /\ Last(out) \in Events
         /\ Last(out).kind \in {"begin", "start", "delta"} /\ Last(out).index = 0
         /\ Last(out).kind = "begin" <=> format = "tools" /\ sent = <<>>
<1>1. out \in Seq(Events) /\ EventsFit /\ stage # "done"
  BY DEF TextSound, TextTypeOK, Events
<1>2. /\ out # <<>> /\ Last(out).index = 0
      /\ Last(out).kind = "begin" <=> format = "tools" /\ sent = <<>>
      /\ \A n \in DOMAIN out : out[n].kind \in {"begin", "start", "delta"}
  BY <1>1 DEF EventsFit
<1>3. Len(out) \in DOMAIN out /\ out[Len(out)] \in Events
  <2>1. Len(out) \in Nat \ {0} /\ DOMAIN out = 1 .. Len(out)
    BY <1>1, <1>2, EmptySeq, LenProperties
  <2>2. Len(out) \in 1 .. Len(out)
    BY <2>1
  <2> QED
    BY <1>1, <2>1, <2>2, ElementOfSeq
<1> QED
  BY <1>1, <1>2, <1>3 DEF Last

LEMMA SaidInBlocks ==
  ASSUME TextSound, BlocksWellFormed, stage = "stream", NEW newraw \in Seq(STRING), Say(newraw)
  PROVE  BlocksWellFormed'
<1> DEFINE next == Sanitized(newraw)
<1>1. format' = format /\ (next = text => out' = out)
  BY DEF Say
<1>2. CASE format = "chat" \/ next = text
  BY <1>1, <1>2 DEF BlocksWellFormed
<1>3. CASE format # "chat" /\ next # text
  <2>1. next \in Seq(STRING)
    BY SanitizedIs
  <2>2. text \in Seq(STRING) /\ got \in Seq(STRING) /\ sent \in Seq(STRING) /\ SentFits
    BY DEF TextSound, TextTypeOK
  <2> HIDE DEF next
  <2>3. New(next) \in Seq(STRING)
    <3>1. Len(text) \in Nat
      BY <2>2, LenProperties
    <3>2. After(next, Len(text)) \in Seq(STRING)
      BY <2>1, <3>1, AfterIs
    <3> QED
      BY <2>1, <3>2 DEF New
  <2>9. PICK part \in BOOLEAN :
           /\ part => format = "tools" /\ EndsInTag(New(next))
           /\ out' = out \o Passed(Told(New(next), part))
    BY <1>3, PartIs DEF next
  <2> DEFINE tells == Told(New(next), part)
  <2>4. tells \in Seq(STRING) /\ IsPrefix(sent, tells)
    BY <2>2, <2>3, <2>9, ToldIs
  <2>10. out' = out \o Passed(tells)
    BY <2>9
  <2> HIDE DEF tells
  <2> DEFINE es == Passed(tells)
             d == [kind |-> "delta", index |-> 0, text |-> After(tells, Len(sent))]
             s == [kind |-> "start", index |-> 0, text |-> <<>>]
  <2>5. /\ es \in Seq(Events)
        /\ tells = sent => es = <<>>
        /\ tells # sent => IF format = "tools" /\ ~TextOpen
                          THEN Len(es) = 2 /\ es[2] = d /\ es[1] = s
                          ELSE Len(es) = 1 /\ es[1] = d
    BY <2>2, <2>4, PassedIs
  <2> HIDE DEF es
  <2>6. /\ out \in Seq(Events) /\ out # <<>>
        /\ Last(out).kind \in {"begin", "start", "delta"} /\ Last(out).index = 0
        /\ Last(out).kind = "begin" <=> format = "tools" /\ sent = <<>>
    BY <1>3, OpenBlock
  <2>7. Chain(Last(out), es)
    <3>1. CASE tells = sent
      BY <2>5, <3>1, ChainNone
    <3>2. CASE tells # sent /\ format = "tools" /\ ~TextOpen
      <4>1. Len(es) = 2 /\ es[2] = d /\ es[1] = s
        BY <2>5, <3>2
      <4>2. Last(out).kind = "begin"
        BY <2>6, <3>2 DEF TextOpen
      <4>3. Follows(Last(out), s) /\ Follows(s, d)
        BY <4>2 DEF Follows
      <4>4. \A n \in 1 .. 2 : n = 1 \/ (n = 2 /\ n # 1 /\ n - 1 = 1)
        OBVIOUS
      <4> QED
        BY <4>1, <4>3, <4>4 DEF Chain
    <3>3. CASE tells # sent /\ ~(format = "tools" /\ ~TextOpen)
      <4>1. Len(es) = 1 /\ es[1] = d
        BY <2>5, <3>3
      <4>2. Last(out).kind \in {"start", "delta"}
        BY <2>6, <3>3 DEF TextOpen
      <4>3. Follows(Last(out), d)
        BY <2>6, <4>2 DEF Follows
      <4>4. \A n \in 1 .. 1 : n = 1
        OBVIOUS
      <4> QED
        BY <4>1, <4>3, <4>4 DEF Chain
    <3> QED
      BY <3>1, <3>2, <3>3
  <2>8. out' = out \o es
    BY <2>10 DEF es
  <2> QED
    BY <1>1, <2>5, <2>6, <2>7, <2>8, BlocksAdd
<1> QED
  BY <1>2, <1>3

LEMMA QuietInBlocks ==
  ASSUME TextSound, BlocksWellFormed, Quiet
  PROVE  BlocksWellFormed'
<1>1. format' = format /\ format \in Formats
  BY DEF Quiet, TextSound, TextTypeOK
<1>2. CASE stage = "pick" /\ stage' = "check"
  <2>1. out' = Opening
    BY <1>2 DEF Quiet
  <2>2. /\ Opening \in Seq(Events)
        /\ Len(Opening) = IF format = "chat" THEN 0 ELSE IF format = "tools" THEN 1 ELSE 2
        /\ format # "chat" => Opening[1] = [kind |-> "begin", index |-> 0, text |-> <<>>]
        /\ format \notin {"chat", "tools"} =>
               Opening[2] = [kind |-> "start", index |-> 0, text |-> <<>>]
    BY <1>1, OpeningIs
  <2>3. DOMAIN Opening = 1 .. Len(Opening)
    BY <2>2, LenProperties
  <2>4. CASE format = "chat"
    BY <1>1, <2>4 DEF BlocksWellFormed
  <2>5. CASE format = "tools"
    <3>1. Opening[1].kind = "begin" /\ DOMAIN Opening = 1 .. 1
      BY <2>2, <2>3, <2>5
    <3>2. \A n \in 1 .. 1 : n = 1
      OBVIOUS
    <3> QED
      BY <1>1, <2>1, <3>1, <3>2 DEF BlocksWellFormed
  <2>6. CASE format \notin {"chat", "tools"}
    <3>1. /\ Opening[1].kind = "begin" /\ Opening[2].kind = "start" /\ Opening[2].index = 0
          /\ DOMAIN Opening = 1 .. 2
      BY <2>2, <2>3, <2>6
    <3>2. \A n \in 1 .. 2 : n = 1 \/ (n = 2 /\ n # 1 /\ n - 1 = 1)
      OBVIOUS
    <3> QED
      BY <1>1, <2>1, <3>1, <3>2 DEF BlocksWellFormed
  <2> QED
    BY <2>4, <2>5, <2>6
<1>3. CASE ~(stage = "pick" /\ stage' = "check")
  <2>1. out' = out
    BY <1>3 DEF Quiet
  <2> QED
    BY <1>1, <2>1 DEF BlocksWellFormed
<1> QED
  BY <1>2, <1>3

LEMMA SingleIs ==
  ASSUME NEW T, NEW e \in T
  PROVE  <<e>> \in Seq(T) /\ Len(<<e>>) = 1 /\ <<e>>[1] = e
OBVIOUS

LEMMA ReverseIs ==
  ASSUME NEW s \in Seq(STRING), Len(s) > 0
  PROVE  Reverse(s) \in Seq(STRING) /\ Len(Reverse(s)) = Len(s) /\ Reverse(s)[1] = s[Len(s)]
<1> DEFINE r == Reverse(s)
<1>1. Len(s) \in Nat /\ \A i \in 1 .. Len(s) : s[i] \in STRING
  BY LenProperties, ElementOfSeq
<1>2. \A i \in 1 .. Len(s) : (Len(s) - i) + 1 \in 1 .. Len(s)
  BY <1>1
<1>3. r = [i \in 1 .. Len(s) |-> s[(Len(s) - i) + 1]]
  BY DEF Reverse
<1>4. r \in [1 .. Len(s) -> STRING]
  BY <1>1, <1>2, <1>3
<1>5. 1 \in 1 .. Len(s) /\ (Len(s) - 1) + 1 = Len(s)
  BY <1>1
<1>6. r[1] = s[Len(s)]
  BY <1>3, <1>5
<1> HIDE DEF r
<1>7. r \in Seq(STRING) /\ Len(r) = Len(s)
  BY <1>1, <1>4, SeqDef, LenProperties
<1> QED
  BY <1>6, <1>7 DEF r

\* An upstream that writes its calls in one piece has no call open at the end.
LEMMA EndsProper ==
  ASSUME TextSound, AnswerFits, ~Loose, Done
  PROVE  Proper(got) /\ (got = <<>> \/ Last(got) # "<")
<1>1. /\ reply \in Seq(STRING) /\ text \in Seq(STRING) /\ got \in Seq(STRING)
      /\ text = Sanitized(reply) /\ Proper(reply)
  BY DEF Done, TextSound, TextTypeOK, AnswerFits
<1>2. PICK before \in Seq(STRING) : NoMarks(before) /\ got = before \o text
  BY DEF Done, AnswerFits
<1>3. /\ Proper(text)
      /\ ~NoMarks(text) => reply # <<>> /\ text # <<>> /\ Last(text) = Last(reply)
  BY <1>1, SanitizedProper
<1>4. Proper(got)
  BY <1>1, <1>2, <1>3, ProperBehind
<1>5. ASSUME got # <<>>, Last(got) = "<" PROVE FALSE
  <2>1. /\ Len(before) \in Nat /\ Len(text) \in Nat /\ Len(got) = Len(before) + Len(text)
        /\ DOMAIN before = 1 .. Len(before) /\ DOMAIN text = 1 .. Len(text)
        /\ \A i \in 1 .. Len(before) + Len(text) :
              got[i] = IF i <= Len(before) THEN before[i] ELSE text[i - Len(before)]
    BY <1>1, <1>2, ConcatProperties, LenProperties
  <2>2. Len(got) > 0 /\ got[Len(got)] = "<"
    <3>1. Len(got) \in Nat \ {0}
      BY <1>1, <1>5, EmptySeq
    <3> QED
      BY <1>5, <3>1 DEF Last
  <2>3. CASE Len(text) = 0
    <3>1. Len(got) = Len(before) /\ Len(before) \in DOMAIN before /\ Len(before) \in 1 .. Len(before) + Len(text)
      BY <2>1, <2>2, <2>3
    <3>2. before[Len(before)] = "<"
      BY <2>1, <2>2, <3>1
    <3> QED
      BY <1>2, <3>1, <3>2 DEF NoMarks
  <2>4. CASE Len(text) # 0
    <3>1. /\ Len(got) \in 1 .. Len(before) + Len(text) /\ ~(Len(got) <= Len(before))
          /\ Len(got) - Len(before) = Len(text) /\ Len(text) \in DOMAIN text
      BY <2>1, <2>4
    <3>2. text[Len(text)] = "<"
      BY <2>1, <2>2, <3>1
    <3>3. ~NoMarks(text)
      BY <3>1, <3>2 DEF NoMarks
    <3>4. reply # <<>> /\ Last(reply) = "<"
      BY <1>3, <3>2, <3>3 DEF Last
    <3>5. Len(reply) \in Nat /\ Len(reply) > 0
      <4>1. Len(reply) \in Nat \ {0}
        BY <1>1, <3>4, EmptySeq
      <4> QED
        BY <4>1
    <3> DEFINE r == Reverse(reply)  o == Reverse(<<"<">>)
    <3>6. r \in Seq(STRING) /\ Len(r) = Len(reply) /\ r[1] = reply[Len(reply)]
      BY <1>1, <3>5, ReverseIs
    <3>7. o \in Seq(STRING) /\ Len(o) = 1 /\ o[1] = "<"
      <4> DEFINE x == <<"<">>
      <4>1. reply[Len(reply)] \in STRING
        <5>1. Len(reply) \in 1 .. Len(reply)
          BY <3>5
        <5> QED
          BY <1>1, <5>1, ElementOfSeq
      <4>2. "<" \in STRING
        BY <3>4, <4>1 DEF Last
      <4>3. ASSUME NEW e \in STRING
            PROVE  <<e>> \in Seq(STRING) /\ Len(<<e>>) = 1 /\ <<e>>[1] = e
        BY SingleIs
      <4>4. x \in Seq(STRING) /\ Len(x) = 1 /\ x[1] = "<" /\ 1 > 0
        BY <4>2, <4>3
      <4> HIDE DEF x
      <4>5. Reverse(x) \in Seq(STRING) /\ Len(Reverse(x)) = 1 /\ Reverse(x)[1] = "<"
        BY <4>4, ReverseIs
      <4> QED
        BY <4>5 DEF x
    <3>8. IsPrefix(o, r)
      <4> HIDE DEF o, r
      <4>1. \A i \in 1 .. 1 : i = 1
        OBVIOUS
      <4>2. 1 <= Len(r)
        BY <3>5, <3>6
      <4>3. r[1] = "<"
        BY <3>4, <3>6 DEF Last
      <4> QED
        BY <3>6, <3>7, <4>1, <4>2, <4>3, PrefixIs
    <3>9. IsSuffix(<<"<">>, reply)
      BY <3>8 DEF IsSuffix
    <3> QED
      BY <3>9 DEF Done
  <2> QED
    BY <2>3, <2>4
<1> QED
  BY <1>4, <1>5

\* Nothing of the text is left for the end.
LEMMA NothingLate ==
  ASSUME TextSound, format = "tools", IsIn("<", got), Proper(got), got = <<>> \/ Last(got) # "<"
  PROVE  /\ Shown(got) = Stripped(Words(got))
         /\ Rest = <<>> /\ LateText = <<>>
         /\ FirstCall = IF TextOpen THEN 1 ELSE 0
<1>1. got \in Seq(STRING) /\ sent \in Seq(STRING) /\ Len(sent) \in Nat
      /\ Len(Trimmed(Words(got))) <= Len(sent)
  <2>1. got \in Seq(STRING) /\ sent \in Seq(STRING) /\ SentFits
    BY DEF TextSound, TextTypeOK
  <2> QED
    BY <2>1, LenProperties DEF SentFits
<1>2. Shown(got) = Stripped(Words(got))
  BY <1>1, PlainIsWords DEF Shown
<1>3. /\ Shown(got) \in Seq(STRING) /\ Len(Shown(got)) \in Nat
      /\ Len(Shown(got)) <= Len(sent)
  <2>1. Words(got) \in Seq(STRING)
    BY <1>1, WordsAre
  <2>2. /\ Stripped(Words(got)) \in Seq(STRING) /\ Trimmed(Words(got)) \in Seq(STRING)
        /\ Len(Stripped(Words(got))) <= Len(Trimmed(Words(got)))
    BY <2>1, StrippedIs, TrimmedIs
  <2>3. Len(Stripped(Words(got))) \in Nat /\ Len(Trimmed(Words(got))) \in Nat
    BY <2>2, LenProperties
  <2> QED
    BY <1>1, <1>2, <2>2, <2>3
<1>4. Rest = <<>>
  <2>1. Len(sent) >= Len(Shown(got))
    BY <1>1, <1>3
  <2> QED
    BY <1>1, <1>3, <2>1, AfterIs DEF Rest
<1>5. LateText = <<>>
  BY <1>4 DEF LateText
<1>6. ASSUME ~TextOpen PROVE Shown(got) = <<>>
  <2>1. sent = <<>>
    BY <1>6 DEF TextOpen
  <2>2. Len(Shown(got)) = 0
    BY <1>1, <1>3, <2>1, EmptySeq
  <2> QED
    BY <1>3, <2>2, EmptySeq
<1>7. FirstCall = IF TextOpen THEN 1 ELSE 0
  BY <1>6 DEF FirstCall
<1> QED
  BY <1>2, <1>4, <1>5, <1>7

\* How a request ends, with tools.
LEMMA FinishIs ==
  ASSUME TextSound, format = "tools", Proper(got), got = <<>> \/ Last(got) # "<"
  PROVE  /\ FirstCall \in Nat /\ Calls(got) \in Nat
         /\ TextStop \in Seq(Events) /\ Blocks(FirstCall, Calls(got)) \in Seq(Events)
         /\ Finished = IF Calls(got) > 0 THEN TextStop \o Blocks(FirstCall, Calls(got)) ELSE TextStop
         /\ Finished \in Seq(Events)
         /\ Calls(got) > 0 => FirstCall = IF TextOpen THEN 1 ELSE 0
<1>1. got \in Seq(STRING) /\ sent \in Seq(STRING)
  BY DEF TextSound, TextTypeOK
<1>2. Calls(got) \in Nat /\ (Calls(got) > 0 => IsIn("<", got))
  BY <1>1, CallsCount
<1>3. FirstCall \in Nat /\ TextStop \in Seq(Events)
  BY <1>1, FirstCallTyped, LateIs
<1>4. Blocks(FirstCall, Calls(got)) \in Seq(Events)
  BY <1>2, <1>3, BlocksAre
<1>5. ASSUME Calls(got) > 0 PROVE LateText = <<>> /\ FirstCall = IF TextOpen THEN 1 ELSE 0
  BY <1>2, <1>5, NothingLate
<1>6. TextStop \o <<>> = TextStop
  BY <1>3, ConcatEmptySeq
<1>7. Finished = IF Calls(got) > 0 THEN TextStop \o Blocks(FirstCall, Calls(got)) ELSE TextStop
  BY <1>5, <1>6, FinishedIs
<1>8. TextStop \o Blocks(FirstCall, Calls(got)) \in Seq(Events)
  BY <1>3, <1>4, ConcatProperties
<1> QED
  BY <1>2, <1>3, <1>4, <1>5, <1>7, <1>8

LEMMA DoneInBlocks ==
  ASSUME TextSound, AnswerFits, BlocksWellFormed, ~Loose, Done
  PROVE  BlocksWellFormed'
<1>1. /\ format' = format /\ out' = out \o Closing /\ stage = "stream"
      /\ format \in {"chat", "response", "message", "tools"}
  BY TextAssumption DEF Done, TextSound, TextTypeOK, TextAssumption
<1>2. CASE format = "chat"
  BY <1>1, <1>2 DEF BlocksWellFormed
<1>3. CASE format # "chat"
  <2> DEFINE b == Last(out)
             st == Event("stop", 0, <<>>)
             en == Event("end", 0, <<>>)
             stop == [kind |-> "stop", index |-> 0, text |-> <<>>]
             end == [kind |-> "end", index |-> 0, text |-> <<>>]
  <2>1. /\ out \in Seq(Events) /\ out # <<>> /\ b \in Events
        /\ b.kind \in {"begin", "start", "delta"} /\ b.index = 0
        /\ b.kind = "begin" <=> format = "tools" /\ sent = <<>>
    BY <1>1, <1>3, OpenBlock
  <2> HIDE DEF b
  <2>2. ASSUME b.kind # "begin"
        PROVE  st \in Seq(Events) /\ Chain(b, st) /\ LastOf(b, st) = stop
    <3>1. Follows(b, stop)
      BY <2>1, <2>2 DEF Follows
    <3> QED
      BY <3>1, KindsAre, ChainOne
  <2>3. ASSUME NEW before, before.kind \in {"begin", "stop"}
        PROVE  en \in Seq(Events) /\ Chain(before, en)
    <3>1. Follows(before, end)
      BY <2>3 DEF Follows
    <3> QED
      BY <3>1, KindsAre, ChainOne
  <2> HIDE DEF st, en
  <2>4. ASSUME NEW events \in Seq(Events), Chain(b, events),
               LastOf(b, events).kind \in {"begin", "stop"}, Closing = events \o en
        PROVE  BlocksWellFormed'
    <3>1. en \in Seq(Events) /\ Chain(LastOf(b, events), en)
      BY <2>3, <2>4
    <3>2. events \o en \in Seq(Events) /\ Chain(b, events \o en)
      BY <2>4, <3>1, ChainMore
    <3> QED
      BY <1>1, <2>1, <2>4, <3>2, BlocksAdd DEF b
  <2>5. CASE format \in {"response", "message"}
    <3>1. b.kind # "begin"
      BY <2>1, <2>5
    <3>2. Closing = st \o en
      <4>1. CASE format = "response"
        BY <4>1 DEF Closing, st, en
      <4>2. CASE format = "message"
        <5>1. Finished = st
          BY <4>2, FinishedIs DEF TextStop, TextOpen, st
        <5> QED
          BY <4>2, <5>1 DEF Closing, en
      <4> QED
        BY <2>5, <4>1, <4>2
    <3>3. stop.kind \in {"begin", "stop"}
      OBVIOUS
    <3> QED
      BY <2>2, <2>4, <3>1, <3>2, <3>3
  <2>6. CASE format = "tools"
    <3>1. Closing = Finished \o en
      BY <2>6 DEF Closing, en
    <3>2. Proper(got) /\ (got = <<>> \/ Last(got) # "<")
      BY EndsProper
    <3> DEFINE l == LastOf(b, TextStop)
    <3>3. /\ TextStop \in Seq(Events) /\ Chain(b, TextStop)
          /\ l \in Events /\ l.kind \in {"begin", "stop"}
          /\ IF TextOpen THEN l.kind = "stop" /\ l.index = 0 ELSE l.kind = "begin"
      <4>1. CASE TextOpen
        <5>1. b.kind # "begin" /\ TextStop = st
          BY <2>1, <2>6, <4>1 DEF TextOpen, TextStop, st
        <5>2. stop \in Events /\ stop.kind = "stop" /\ stop.index = 0
          BY KindsAre DEF Events
        <5>3. l = stop
          BY <2>2, <5>1
        <5> QED
          BY <2>2, <4>1, <5>1, <5>2, <5>3
      <4>2. CASE ~TextOpen
        <5>1. b.kind = "begin" /\ TextStop = <<>>
          BY <2>1, <2>6, <4>2 DEF TextOpen, TextStop
        <5> QED
          BY <2>1, <4>2, <5>1, ChainNone
      <4> QED
        BY <4>1, <4>2
    <3> HIDE DEF l
    <3> DEFINE calls == Blocks(FirstCall, Calls(got))
    <3>4. /\ FirstCall \in Nat /\ Calls(got) \in Nat
          /\ calls \in Seq(Events) /\ Finished \in Seq(Events)
          /\ Finished = IF Calls(got) > 0 THEN TextStop \o calls ELSE TextStop
          /\ Calls(got) > 0 => FirstCall = IF TextOpen THEN 1 ELSE 0
      BY <2>6, <3>2, FinishIs
    <3>5. CASE Calls(got) > 0
      <4>1. FirstCall = IF l.kind = "begin" THEN 0 ELSE l.index + 1
        BY <3>3, <3>4, <3>5
      <4>2. Chain(l, calls) /\ LastOf(l, calls).kind = "stop"
        BY <3>3, <3>4, <3>5, <4>1, ChainOfCalls
      <4> HIDE DEF calls
      <4>3. /\ Chain(b, TextStop \o calls)
            /\ LastOf(b, TextStop \o calls) = LastOf(l, calls)
        BY <3>3, <3>4, <4>2, ChainMore DEF l
      <4> QED
        BY <2>4, <3>1, <3>4, <3>5, <4>2, <4>3
    <3>6. CASE ~(Calls(got) > 0)
      BY <2>4, <3>1, <3>3, <3>4, <3>6 DEF l
    <3> QED
      BY <3>5, <3>6
  <2> QED
    BY <1>1, <1>3, <2>5, <2>6
<1> QED
  BY <1>2, <1>3

LEMMA BlockSteps ==
  ASSUME TextSound, AnswerFits, BlocksWellFormed, ~Loose, ~Rewrites, HistoryApart,
         [TextNext]_textVars
  PROVE  BlocksWellFormed'
<1>1. CASE Pick \/ SkipOpen \/ Ask \/ Rejected \/ Breaks
  BY <1>1, AccountSteps, QuietInBlocks
<1>2. CASE \/ \E more \in Pieces : AppendText(more) \/ WholeText(more)
           \/ \E s \in Texts : ReplaceText(s)
  <2>1. \E newraw \in Seq(STRING) : stage = "stream" /\ Say(newraw)
    <3>1. PICK more \in Seq(Tokens) : stage = "stream" /\ Say(reply \o more)
      BY <1>2, AnswerGrows
    <3>2. reply \o more \in Seq(STRING)
      <4>1. reply \o more \in Seq(Tokens)
        BY <3>1, ConcatProperties DEF TextSound
      <4> QED
        BY <4>1, TextsAreStrings
    <3> QED
      BY <3>1, <3>2
  <2> QED
    BY <2>1, SaidInBlocks
<1>3. CASE Echo
  BY <1>3, EchoedAnswerFits DEF BlocksWellFormed
<1>4. CASE Done
  BY <1>4, DoneInBlocks
<1>5. CASE UNCHANGED textVars
  BY <1>5 DEF textVars, BlocksWellFormed
<1> QED
  BY <1>1, <1>2, <1>3, <1>4, <1>5 DEF TextNext
-----------------------------------------------------------------------------
(* With and without streaming. *)

Unspaced(s) == \A i \in DOMAIN s : s[i] # " "

LEMMA UnspacedStays ==
  ASSUME NEW s \in Seq(STRING), Unspaced(s)
  PROVE  Trimmed(s) = s /\ Stripped(s) = s
BY TrimmedIs, StrippedIs, Zenon DEF Unspaced

LEMMA Below ==
  ASSUME NEW n \in Nat, NEW p \in 1 .. n
  PROVE  \A i \in 1 .. p - 1 : i \in 1 .. n
OBVIOUS

LEMMA WordsUntrimmed ==
  ASSUME NEW s \in Seq(STRING), IsIn("<", s), Unspaced(s)
  PROVE  Words(s) \in Seq(STRING) /\ Trimmed(Words(s)) = Words(s) /\ Stripped(Words(s)) = Words(s)
<1> DEFINE w == Words(s)
<1>1. Len(s) \in Nat /\ DOMAIN s = 1 .. Len(s) /\ w \in Seq(STRING)
  BY LenProperties, WordsAre
<1>2. PICK p \in 1 .. Len(s) : Len(w) = p - 1 /\ \A i \in 1 .. p - 1 : w[i] = s[i]
  BY WordsAre
<1> HIDE DEF w
<1>3. DOMAIN w = 1 .. p - 1
  BY <1>1, <1>2, LenProperties
<1>4. \A i \in 1 .. p - 1 : i \in DOMAIN s
  <2>1. \A i \in 1 .. p - 1 : i \in 1 .. Len(s)
    BY <1>1, Below
  <2> QED
    BY <1>1, <2>1
<1>5. \A i \in DOMAIN w : i \in DOMAIN s /\ w[i] = s[i]
  BY <1>2, <1>3, <1>4
<1>6. Unspaced(w)
  BY <1>5, Zenon DEF Unspaced
<1>7. Trimmed(w) = w /\ Stripped(w) = w
  BY <1>1, <1>6, UnspacedStays
<1> QED
  BY <1>1, <1>7 DEF w

LEMMA PrefixOfWords ==
  ASSUME NEW s \in Seq(STRING), NEW t \in Seq(STRING), IsPrefix(s, t),
         ~IsIn("<", s), IsIn("<", t)
  PROVE  IsPrefix(s, Words(t))
<1>1. Words(t) \in Seq(STRING) /\ IsPrefix(Words(t), t)
  BY WordsAre
<1>2. /\ Len(s) \in Nat /\ Len(t) \in Nat /\ DOMAIN s = 1 .. Len(s) /\ DOMAIN t = 1 .. Len(t)
      /\ \A i \in 1 .. Len(s) : s[i] = t[i]
  BY LenProperties, PrefixIs
<1>3. PICK i \in 1 .. Len(t) : Len(Words(t)) = i - 1 /\ t[i] = "<"
  BY WordsAre, FirstIs
<1>4. i > Len(s)
  <2> SUFFICES ASSUME ~(i > Len(s)) PROVE FALSE
    OBVIOUS
  <2>1. Len(s) \in Nat
    BY <1>2
  <2>2. i \in 1 .. Len(s)
    BY <2>1
  <2>3. s[i] = "<" /\ i \in DOMAIN s
    BY <1>2, <1>3, <2>2
  <2> QED
    BY <2>3 DEF IsIn, ToSet
<1>5. Len(s) <= Len(Words(t))
  <2>1. Len(s) \in Nat /\ Len(Words(t)) = i - 1
    BY <1>2, <1>3
  <2> QED
    BY <1>4, <2>1
<1> QED
  BY <1>1, <1>5, PrefixesCompare

\* Without spaces nothing is trimmed.
LEMMA NothingTrimmed ==
  ASSUME NEW s \in Seq(Tokens), Proper(s), Spaceless,
         NEW shown, shown = Sanitized(s)
  PROVE  /\ Unspaced(shown)
         /\ IsIn("<", shown) => /\ Words(shown) \in Seq(STRING)
                                /\ Trimmed(Words(shown)) = Words(shown)
                                /\ Stripped(Words(shown)) = Words(shown)
<1>1. s \in Seq(STRING) /\ shown \in Seq(STRING)
  BY TextsAreStrings, SanitizedIs
<1>2. ASSUME NEW i \in DOMAIN shown PROVE shown[i] # " "
  <2>1. PICK k \in DOMAIN s : shown[i] = s[k]
    BY <1>1, SanitizedProper
  <2>2. s[k] \in Tokens
    <3>1. k \in 1 .. Len(s)
      BY LenProperties
    <3> QED
      BY <3>1, ElementOfSeq
  <2> QED
    BY <2>1, <2>2, Zenon DEF Spaceless
<1>3. Unspaced(shown)
  BY <1>2 DEF Unspaced
<1>4. IsIn("<", shown) => /\ Words(shown) \in Seq(STRING)
                          /\ Trimmed(Words(shown)) = Words(shown)
                          /\ Stripped(Words(shown)) = Words(shown)
  BY <1>1, <1>3, WordsUntrimmed
<1> QED
  BY <1>3, <1>4

LEMMA GrownWordsSent ==
  ASSUME TextSound, AnswerFits, WordsSent, stage = "stream", NEW newraw \in Seq(STRING),
         Say(newraw), TextSound', AnswerFits', ~Loose
  PROVE  WordsSent'
<1> SUFFICES ASSUME Spaceless, format = "tools"
             PROVE  sent' = IF ~IsIn("<", got') THEN got'
                            ELSE IF cut' THEN Append(Words(got'), "<") ELSE Words(got')
  BY DEF WordsSent, Say
<1> DEFINE next == Sanitized(newraw)
           delta == New(next)
           g == got \o delta
<1>1. /\ stage' = stage
      /\ next = text => got' = got /\ sent' = sent /\ cut' = cut
  BY DEF Say
<1>2. /\ sent = IF ~IsIn("<", got) THEN got
                ELSE IF cut THEN Append(Words(got), "<") ELSE Words(got)
      /\ cut => IsIn("<", got)
  BY DEF WordsSent, TextSound, SentFits
<1>3. CASE next = text
  BY <1>1, <1>2, <1>3
<1>4. CASE next # text
  <2>1. /\ got \in Seq(STRING) /\ sent \in Seq(STRING) /\ text \in Seq(STRING) /\ SentFits
        /\ next \in Seq(STRING)
    BY SanitizedIs DEF TextSound, TextTypeOK
  <2> HIDE DEF next
  <2>2. delta \in Seq(STRING)
    <3>1. Len(text) \in Nat
      BY <2>1, LenProperties
    <3>2. After(next, Len(text)) \in Seq(STRING)
      BY <2>1, <3>1, AfterIs
    <3> QED
      BY <2>1, <3>2 DEF New
  <2> HIDE DEF delta
  <2>7. PICK part \in BOOLEAN :
           /\ part => format = "tools" /\ EndsInTag(delta)
           /\ got' = g /\ sent' = Told(delta, part) /\ cut' = (cut \/ part)
    BY <1>4, PartIs DEF next, delta
  <2>3. g \in Seq(STRING) /\ IsPrefix(got, g)
    BY <2>1, <2>2, ConcatProperties, PrefixOfMore
  <2>8. CASE part
    <3>1. IsIn("<", g) /\ g = Append(Words(g), "<")
      BY <2>1, <2>2, <2>7, <2>8, TagIsLast
    <3>2. Told(delta, part) = g
      BY <2>1, <2>2, <2>7, <2>8, ToldIs
    <3>3. cut'
      BY <2>7, <2>8
    <3> QED
      BY <2>7, <3>1, <3>2, <3>3
  <2>4. CASE IsIn("<", got) /\ ~part
    <3>1. Told(delta, part) = sent
      BY <2>4 DEF Told
    <3>2. IsIn("<", g) /\ Words(g) = Words(got)
      BY <2>1, <2>2, <2>4, WordsStay
    <3>3. cut' <=> cut
      BY <2>4, <2>7, Zenon
    <3> QED
      BY <1>2, <2>4, <2>7, <3>1, <3>2, <3>3
  <2>5. CASE ~IsIn("<", g)
    <3>1. Told(delta, part) = g
      BY <2>1, <2>2, <2>5, <2>7, ToldIs
    <3> QED
      BY <2>5, <2>7, <3>1
  <2>6. CASE ~IsIn("<", got) /\ IsIn("<", g) /\ ~part
    <3>1. Trimmed(Words(g)) = Words(g)
      <4>1. got' = g /\ stage' \in {"stream", "done"}
        BY <1>1, <2>7
      <4>2. IsIn("<", got') => Trimmed(Words(got')) = Words(got')
        <5>1. /\ reply' \in Seq(Tokens) /\ Proper(reply') /\ got' = Sanitized(reply')
          BY <4>1, SpacelessHugs DEF TextSound, AnswerFits
        <5> QED
          BY <5>1, NothingTrimmed
      <4> QED
        BY <2>6, <4>1, <4>2
    <3>2. Streamable(g) = Words(g)
      BY <2>6, <3>1 DEF Streamable, Words
    <3>6. IsPrefix(got, Words(g))
      BY <2>1, <2>3, <2>6, PrefixOfWords
    <3>7. Told(delta, part) = Words(g)
      <4>1. sent = got
        BY <1>2, <2>6
      <4> QED
        BY <2>6, <3>2, <3>6, <4>1 DEF Told, g
    <3>8. ~cut'
      BY <1>2, <2>6, <2>7
    <3> QED
      BY <2>6, <2>7, <3>7, <3>8
  <2> QED
    BY <2>4, <2>5, <2>6, <2>8
<1> QED
  BY <1>3, <1>4

LEMMA WordsSteps ==
  ASSUME TextSound, AnswerFits, WordsSent, TextSound', AnswerFits', ~Loose, ~Rewrites,
         HistoryApart, [TextNext]_textVars
  PROVE  WordsSent'
<1>1. CASE Pick \/ SkipOpen \/ Ask \/ Rejected \/ Breaks
  <2>1. Quiet
    BY <1>1, AccountSteps
  <2>2. got = <<>> => sent = got /\ ~IsIn("<", got)
    BY NothingShown DEF TextSound, SentFits
  <2> QED
    BY <2>1, <2>2 DEF Quiet, WordsSent
<1>2. CASE \/ \E more \in Pieces : AppendText(more) \/ WholeText(more)
           \/ \E s \in Texts : ReplaceText(s)
  <2>1. PICK more \in Seq(Tokens) : stage = "stream" /\ Say(reply \o more)
    BY <1>2, AnswerGrows
  <2>2. reply \o more \in Seq(STRING)
    <3>1. reply \o more \in Seq(Tokens)
      BY <2>1, ConcatProperties DEF TextSound
    <3> QED
      BY <3>1, TextsAreStrings
  <2> QED
    BY <2>1, <2>2, GrownWordsSent
<1>3. CASE Echo
  BY <1>3, EchoedAnswerFits DEF WordsSent
<1>4. CASE Done
  BY <1>4 DEF Done, WordsSent
<1>5. CASE UNCHANGED textVars
  BY <1>5 DEF textVars, WordsSent
<1> QED
  BY <1>1, <1>2, <1>3, <1>4, <1>5 DEF TextNext

\* A call that is not left open is counted.
LEMMA CallIsCounted ==
  ASSUME NEW s \in Seq(STRING), Proper(s), IsIn("<", s), Last(s) # "<"
  PROVE  Calls(s) > 0
<1>1. Len(s) \in Nat /\ DOMAIN s = 1 .. Len(s)
  BY LenProperties
<1>2. PICK i \in DOMAIN s : s[i] = "<"
  BY DEF IsIn, ToSet
<1>3. i \in 1 .. Len(s) /\ i # Len(s) /\ i + 1 \in 1 .. Len(s) /\ i + 1 > 1 /\ (i + 1) - 1 = i
  <2>1. i # Len(s)
    BY <1>2 DEF Last
  <2> QED
    BY <1>1, <1>2, <2>1
<1>4. s[i + 1] = ">"
  BY <1>1, <1>2, <1>3 DEF Proper
<1>5. InCall(s, i + 1)
  <2>1. \A k \in i .. (i + 1) - 1 : k = i
    BY <1>3
  <2>2. i \in 1 .. i + 1 /\ i + 1 \in i + 1 .. Len(s)
    BY <1>1, <1>3
  <2>3. Marked(s, i + 1, "<", ">")
    BY <1>2, <2>1, <2>2 DEF Marked
  <2>4. IsClosed(s, i + 1, ">")
    BY <1>4, <2>2 DEF IsClosed
  <2> QED
    BY <2>3, <2>4 DEF InCall
<1> DEFINE C == {j \in DOMAIN s : s[j] = ">" /\ InCall(s, j)}
<1>6. i + 1 \in C
  BY <1>1, <1>3, <1>4, <1>5
<1>7. C \in SUBSET (1 .. Len(s))
  BY <1>1
<1>8. Calls(s) = Cardinality(C)
  BY DEF Calls
<1> HIDE DEF C
<1>9. IsFiniteSet(C) /\ Cardinality(C) \in Nat
  BY <1>1, <1>7, Ranks
<1>10. Cardinality(C) # 0
  BY <1>6, <1>9, FS_EmptySet
<1> QED
  BY <1>8, <1>9, <1>10

LEMMA Thirds ==
  ASSUME NEW x \in Nat, x % 3 = 1
  PROVE  \E q \in Nat : x = 3 * q + 1
<1>1. x = 3 * (x \div 3) + 1
  OBVIOUS
<1>2. x \div 3 \in Nat
  OBVIOUS
<1> QED
  BY <1>1, <1>2

\* Of the events, the calls are those in the blocks of the calls.
CallsOf(c) == {i \in DOMAIN c : c[i].kind = "call"}

NoCall(s) == \A i \in 1 .. Len(s) : s[i].kind # "call"

LEMMA CallsAmong ==
  ASSUME NEW a \in Seq(Events), NEW z \in Seq(Events), NEW first \in Nat, NEW n \in Nat,
         NoCall(a), NoCall(z)
  PROVE  Cardinality(CallsOf((a \o Blocks(first, n)) \o z)) = n
<1> DEFINE b == Blocks(first, n)  c == (a \o b) \o z  l == Len(a)  k == Len(z)
           S == {i \in DOMAIN c : c[i].kind = "call"}
           f == [j \in 1 .. n |-> l + 3 * j - 1]
<1>1. /\ b \in Seq(Events) /\ Len(b) = 3 * n
      /\ \A e \in 1 .. 3 * n :
              /\ b[e].text = <<>>
              /\ b[e].index = first + (e - 1) \div 3
              /\ (e - 1) % 3 = 0 => b[e].kind = "start"
              /\ (e - 1) % 3 = 1 => b[e].kind = "call"
              /\ (e - 1) % 3 = 2 => b[e].kind = "stop"
  BY BlocksAre
<1> HIDE DEF b
<1>2. /\ a \o b \in Seq(Events) /\ l \in Nat /\ Len(a \o b) = l + 3 * n
      /\ \A i \in 1 .. l : (a \o b)[i] = a[i]
      /\ \A i \in l + 1 .. l + 3 * n : (a \o b)[i] = b[i - l]
  <2>1. b \in Seq(Events)
    BY <1>1
  <2>2. /\ a \o b \in Seq(Events) /\ l \in Nat /\ Len(a \o b) = l + Len(b)
        /\ \A i \in 1 .. l : (a \o b)[i] = a[i]
        /\ \A i \in l + 1 .. l + Len(b) : (a \o b)[i] = b[i - l]
    BY <2>1, EventsAdd
  <2> QED
    BY <1>1, <2>2
<1> DEFINE ab == a \o b
<1> HIDE DEF ab, c
<1>3. /\ k \in Nat /\ DOMAIN c = 1 .. (l + 3 * n) + k
      /\ \A i \in 1 .. l + 3 * n : c[i] = ab[i]
      /\ \A i \in (l + 3 * n) + 1 .. (l + 3 * n) + k : c[i] = z[i - (l + 3 * n)]
  <2>1. ab \in Seq(Events) /\ Len(ab) = l + 3 * n
    BY <1>2 DEF ab
  <2>2. c = ab \o z
    BY DEF ab, c
  <2> QED
    <3>1. /\ Len(ab) \in Nat /\ k \in Nat /\ DOMAIN (ab \o z) = 1 .. Len(ab) + k
          /\ \A i \in 1 .. Len(ab) : (ab \o z)[i] = ab[i]
          /\ \A i \in Len(ab) + 1 .. Len(ab) + k : (ab \o z)[i] = z[i - Len(ab)]
      BY <2>1, EventsAdd
    <3> QED
      BY <2>1, <2>2, <3>1
<1> HIDE DEF l, k
<1>4. ASSUME NEW j \in 1 .. n PROVE f[j] \in S
  <2> DEFINE e == 3 * j - 1
  <2>1. e \in 1 .. 3 * n /\ (e - 1) % 3 = 1
    OBVIOUS
  <2>2. l + e \in l + 1 .. l + 3 * n /\ (l + e) - l = e /\ l + e \in 1 .. l + 3 * n
        /\ l + e \in 1 .. (l + 3 * n) + k
    <3> HIDE DEF e
    <3> QED
      BY <1>2, <1>3, <2>1
  <2>3. b[e].kind = "call"
    BY <1>1, <2>1
  <2>4. f[j] = l + e
    BY <1>2
  <2> HIDE DEF e, f
  <2>5. c[l + e] = b[e]
    BY <1>2, <1>3, <2>2 DEF ab
  <2>6. l + e \in DOMAIN c /\ c[l + e].kind = "call"
    BY <1>3, <2>2, <2>3, <2>5
  <2> QED
    BY <2>4, <2>6
<1>5. ASSUME NEW i \in S PROVE \E j \in 1 .. n : f[j] = i
  <2>1. i \in 1 .. (l + 3 * n) + k /\ c[i].kind = "call"
    BY <1>3
  <2>2. CASE i <= l
    <3>1. i \in 1 .. l /\ i \in 1 .. l + 3 * n
      BY <1>2, <2>1, <2>2
    <3>2. c[i] = a[i]
      BY <1>2, <1>3, <3>1 DEF ab
    <3> QED
      BY <2>1, <3>1, <3>2 DEF l, NoCall
  <2>3. CASE i > l + 3 * n
    <3>1. i \in (l + 3 * n) + 1 .. (l + 3 * n) + k /\ i - (l + 3 * n) \in 1 .. k
      BY <1>2, <1>3, <2>1, <2>3
    <3>2. c[i] = z[i - (l + 3 * n)]
      BY <1>3, <3>1
    <3> QED
      BY <2>1, <3>1, <3>2 DEF k, NoCall
  <2>4. CASE i > l /\ i <= l + 3 * n
    <3>1. i - l \in 1 .. 3 * n /\ i \in l + 1 .. l + 3 * n /\ i \in 1 .. l + 3 * n
          /\ l + (i - l) = i
      BY <1>2, <2>1, <2>4
    <3>2. PICK e \in 1 .. 3 * n : e = i - l
      BY <3>1
    <3>3. c[i] = b[e]
      BY <1>2, <1>3, <3>1, <3>2 DEF ab
    <3>4. (e - 1) % 3 \in {0, 1, 2}
      OBVIOUS
    <3>5. (e - 1) % 3 = 1
      <4>1. b[e].kind = "call"
        BY <2>1, <3>3
      <4> QED
        BY <1>1, <3>4, <4>1
    <3>6. PICK j \in 1 .. n : 3 * j - 1 = e
      <4>1. e - 1 \in Nat
        OBVIOUS
      <4>2. PICK q \in Nat : e - 1 = 3 * q + 1
        BY <3>5, <4>1, Thirds
      <4>3. q + 1 \in 1 .. n /\ 3 * (q + 1) - 1 = e
        BY <4>2
      <4> QED
        BY <4>3
    <3>7. f[j] = l + 3 * j - 1
      OBVIOUS
    <3>8. l + e = i
      BY <3>1, <3>2
    <3>9. l + 3 * j - 1 = l + e
      BY <1>2, <3>6
    <3> QED
      BY <3>7, <3>8, <3>9
  <2> QED
    <3>1. i \in Nat /\ l + 3 * n \in Nat /\ l \in Nat
      BY <1>2, <1>3, <2>1
    <3>2. i <= l \/ i > l + 3 * n \/ (i > l /\ i <= l + 3 * n)
      BY <3>1
    <3> QED
      BY <2>2, <2>3, <2>4, <3>2
<1>6. ASSUME NEW i \in 1 .. n, NEW j \in 1 .. n, f[i] = f[j] PROVE i = j
  BY <1>2, <1>6
<1> HIDE DEF f, S
<1>7. f \in [1 .. n -> S]
  <2>1. f = [j \in 1 .. n |-> f[j]]
    BY DEF f
  <2> QED
    BY <1>4, <2>1
<1>8. f \in Bijection(1 .. n, S)
  <2>1. f \in Injection(1 .. n, S)
    BY <1>6, <1>7 DEF Injection, IsInjective
  <2>2. f \in Surjection(1 .. n, S)
    BY <1>5, <1>7 DEF Surjection
  <2> QED
    BY <2>1, <2>2 DEF Bijection
<1>9. IsFiniteSet(1 .. n) /\ Cardinality(1 .. n) = n
  <2>1. 1 \in Int /\ n \in Int
    OBVIOUS
  <2>2. IsFiniteSet(1 .. n) /\ Cardinality(1 .. n) = IF 1 > n THEN 0 ELSE n - 1 + 1
    BY <2>1, FS_Interval
  <2> QED
    BY <2>2
<1>10. ExistsBijection(1 .. n, S)
  BY <1>8 DEF ExistsBijection
<1>11. Cardinality(S) = n
  BY <1>9, <1>10, FS_Bijection
<1> QED
  BY <1>11 DEF S, CallsOf, b, c

(* Joining sequences of events is associative. *)
LEMMA EventsJoin ==
  ASSUME NEW s \in Seq(Events), NEW t \in Seq(Events), NEW u \in Seq(Events)
  PROVE  s \o (t \o u) = (s \o t) \o u
  BY ConcatAssociative, SMTT(30)

LEMMA DoneIsWhole ==
  ASSUME TextSound, AnswerFits, WordsSent, ~Loose, Spaceless, Done
  PROVE  SameAsWhole'
<1> SUFFICES ASSUME format = "tools"
             PROVE  /\ Said(out') = IF cut THEN Append(Shown(got), "<") ELSE Shown(got)
                    /\ Cardinality({n \in DOMAIN out' : out'[n].kind = "call"}) = Calls(got)
  BY DEF Done, SameAsWhole
<1>1. /\ stage = "stream" /\ out' = out \o Closing
      /\ got \in Seq(STRING) /\ out \in Seq(Events) /\ reply \in Seq(Tokens)
      /\ Proper(reply) /\ got = Sanitized(reply)
  BY SpacelessHugs DEF Done, TextSound, TextTypeOK, Events, AnswerFits
<1>2. /\ Said(out) = sent
      /\ \A n \in DOMAIN out : out[n].kind \in {"begin", "start", "delta"}
  BY <1>1 DEF TextSound, EventsFit
<1>3. /\ sent = IF ~IsIn("<", got) THEN got
                ELSE IF cut THEN Append(Words(got), "<") ELSE Words(got)
      /\ cut => IsIn("<", got)
  BY <1>1 DEF WordsSent, TextSound, SentFits
<1>4. Proper(got) /\ (got = <<>> \/ Last(got) # "<")
  BY EndsProper
<1>5. /\ Unspaced(got)
      /\ IsIn("<", got) => Stripped(Words(got)) = Words(got)
  BY <1>1, NothingTrimmed
<1>6. sent = IF cut THEN Append(Shown(got), "<") ELSE Shown(got)
  <2>1. Plain(got) = IF IsIn("<", got) THEN Words(got) ELSE got
    BY <1>1, <1>4, PlainIsWords
  <2>2. Stripped(got) = got
    BY <1>1, <1>5, UnspacedStays
  <2> QED
    BY <1>3, <1>5, <2>1, <2>2 DEF Shown
<1> DEFINE calls == Blocks(FirstCall, Calls(got))
           en == Event("end", 0, <<>>)
<1>7. /\ FirstCall \in Nat /\ Calls(got) \in Nat
      /\ TextStop \in Seq(Events) /\ calls \in Seq(Events)
      /\ Finished = IF Calls(got) > 0 THEN TextStop \o calls ELSE TextStop
  BY <1>4, FinishIs
<1>8. Len(calls) = 3 * Calls(got) /\ Said(calls) = <<>>
  BY <1>7, BlocksAre
<1>9. /\ en \in Seq(Events) /\ Len(en) = 1 /\ Said(en) = <<>>
      /\ en[1] = [kind |-> "end", index |-> 0, text |-> <<>>]
  BY KindsAre, SaidOne
<1>10. Closing = Finished \o en
  BY DEF Closing
<1> HIDE DEF calls, en
<1>11. Finished = TextStop \o calls
  <2>1. CASE Calls(got) > 0
    BY <1>7, <2>1
  <2>2. CASE ~(Calls(got) > 0)
    <3>1. Len(calls) = 0
      BY <1>7, <1>8, <2>2
    <3>2. calls = <<>>
      BY <1>7, <3>1, EmptySeq
    <3>3. TextStop \o <<>> = TextStop
      BY <1>7, ConcatEmptySeq
    <3> QED
      BY <1>7, <2>2, <3>2, <3>3
  <2> QED
    BY <2>1, <2>2
<1>12. /\ TextStop \o calls \in Seq(Events) /\ out \o TextStop \in Seq(Events)
       /\ (out \o TextStop) \o calls \in Seq(Events)
  BY <1>1, <1>7, ConcatProperties
<1>13. out' = ((out \o TextStop) \o calls) \o en
  <2>1. out \o ((TextStop \o calls) \o en) = (out \o (TextStop \o calls)) \o en
    <3>1. out \in Seq(Events) /\ TextStop \o calls \in Seq(Events) /\ en \in Seq(Events)
      BY <1>1, <1>9, <1>12
    <3> QED
      BY <3>1, EventsJoin
  <2>2. out \o (TextStop \o calls) = (out \o TextStop) \o calls
    <3>1. out \in Seq(Events) /\ TextStop \in Seq(Events) /\ calls \in Seq(Events)
      BY <1>1, <1>7
    <3> QED
      BY <3>1, EventsJoin
  <2> QED
    BY <1>1, <1>10, <1>11, <2>1, <2>2
<1>14. Said(out') = IF cut THEN Append(Shown(got), "<") ELSE Shown(got)
  <2>1. sent \in Seq(STRING) /\ Said(TextStop) = <<>>
    BY <1>1, LateIs DEF TextSound, TextTypeOK
  <2>2. sent \o <<>> = sent
    BY <2>1, ConcatEmptySeq
  <2>3. Said(out \o TextStop) = sent
    BY <1>1, <1>2, <1>7, <2>1, <2>2, SaidConcat
  <2>4. Said((out \o TextStop) \o calls) = sent
    BY <1>7, <1>8, <1>12, <2>2, <2>3, SaidConcat
  <2>5. Said(((out \o TextStop) \o calls) \o en) = sent
    BY <1>9, <1>12, <2>2, <2>4, SaidConcat
  <2> QED
    BY <1>6, <1>13, <2>5
<1>15. \A i \in 1 .. Len(out \o TextStop) : (out \o TextStop)[i].kind # "call"
  <2>1. /\ Len(out) \in Nat /\ Len(TextStop) \in Nat /\ DOMAIN out = 1 .. Len(out)
        /\ Len(out \o TextStop) = Len(out) + Len(TextStop)
        /\ \A i \in 1 .. Len(out) : (out \o TextStop)[i] = out[i]
        /\ \A i \in Len(out) + 1 .. Len(out) + Len(TextStop) :
              (out \o TextStop)[i] = TextStop[i - Len(out)]
    BY <1>1, <1>7, EventsAdd
  <2>2. \A i \in 1 .. Len(TextStop) : TextStop[i].kind # "call"
    <3>1. CASE TextOpen
      <4>1. Len(TextStop) = 1 /\ TextStop[1].kind = "stop"
        <5>1. /\ Len(Event("stop", 0, <<>>)) = 1
              /\ Event("stop", 0, <<>>)[1] = [kind |-> "stop", index |-> 0, text |-> <<>>]
          BY KindsAre, SaidOne
        <5> QED
          BY <3>1, <5>1 DEF TextStop
      <4>2. \A i \in 1 .. 1 : i = 1
        OBVIOUS
      <4> QED
        BY <4>1, <4>2
    <3>2. CASE ~TextOpen
      <4>1. Len(TextStop) = 0
        BY <3>2, EmptySeq DEF TextStop
      <4> QED
        BY <4>1
    <3> QED
      BY <3>1, <3>2
  <2>3. ASSUME NEW i \in 1 .. Len(out) + Len(TextStop)
        PROVE  (out \o TextStop)[i].kind # "call"
    <3>1. \/ i \in 1 .. Len(out)
          \/ i \in Len(out) + 1 .. Len(out) + Len(TextStop) /\ i - Len(out) \in 1 .. Len(TextStop)
      <4>1. Len(out) \in Nat /\ Len(TextStop) \in Nat
        BY <2>1
      <4> QED
        BY <4>1
    <3> QED
      BY <1>2, <2>1, <2>2, <3>1
  <2> QED
    BY <2>1, <2>3
<1>16. \A i \in 1 .. Len(en) : en[i].kind # "call"
  <2>1. \A i \in 1 .. 1 : i = 1
    OBVIOUS
  <2> QED
    BY <1>9, <2>1
<1>17. Cardinality({n \in DOMAIN out' : out'[n].kind = "call"}) = Calls(got)
  <2> DEFINE a == out \o TextStop  n == Calls(got)  first == FirstCall
  <2>1. /\ a \in Seq(Events) /\ en \in Seq(Events) /\ first \in Nat /\ n \in Nat
        /\ NoCall(a) /\ NoCall(en)
    BY <1>7, <1>9, <1>12, <1>15, <1>16 DEF NoCall
  <2>2. out' = (a \o Blocks(first, n)) \o en
    BY <1>13 DEF calls
  <2> HIDE DEF a, n, first
  <2>3. Cardinality({i \in DOMAIN out' : out'[i].kind = "call"}) = n
    <3>1. Cardinality(CallsOf((a \o Blocks(first, n)) \o en)) = n
      BY <2>1, CallsAmong
    <3> QED
      BY <2>2, <3>1 DEF CallsOf
  <2> QED
    BY <2>3 DEF n
<1> QED
  BY <1>14, <1>17

LEMMA WholeSteps ==
  ASSUME TextSound, AnswerFits, WordsSent, SameAsWhole, ~Loose, ~Rewrites, Spaceless,
         HistoryApart, [TextNext]_textVars
  PROVE  SameAsWhole'
<1>1. CASE Pick \/ SkipOpen \/ Ask \/ Rejected \/ Breaks
  BY <1>1, AccountSteps DEF Quiet, SameAsWhole
<1>2. CASE \/ \E more \in Pieces : AppendText(more) \/ WholeText(more)
           \/ \E s \in Texts : ReplaceText(s)
           \/ Echo
  <2>1. stage' = "stream"
    BY <1>2, WhatIsSaid DEF Say
  <2> QED
    BY <2>1 DEF SameAsWhole
<1>3. CASE Done
  BY <1>3, DoneIsWhole
<1>4. CASE UNCHANGED textVars
  BY <1>4 DEF textVars, SameAsWhole
<1> QED
  BY <1>1, <1>2, <1>3, <1>4 DEF TextNext

(* A client has been told what streamed_text says, no less than what comes before a call,  *)
(* and its last block is open, whatever the upstream does: it may take text back and leave *)
(* calls open.                                                                             *)
THEOREM TextEventsFit == TextSpec => []TextSound
<1>1. TextInit => TextSound
  BY TextStarts
<1>2. TextSound /\ [TextNext]_textVars => TextSound'
  BY TextSteps
<1> QED
  BY <1>1, <1>2, PTL DEF TextSpec

(* The deltas add up to the answer, cleaned (current_text), if the upstream does not take  *)
(* text back, never writes a space or never a full stop, and does not begin as the history *)
(* does, which strip_history takes away.                                                   *)
THEOREM TextDeltasAddUp ==
  ASSUME ~Rewrites, NoHugs, HistoryApart
  PROVE  TextSpec => []DeltasAddUp
<1> DEFINE IInv == TextSound /\ AnswerFits
<1>1. TextInit => IInv
  BY TextStarts, AnswerStarts
<1>2. IInv /\ [TextNext]_textVars => IInv'
  BY TextSteps, AnswerSteps
<1>3. IInv => DeltasAddUp
  <2> SUFFICES ASSUME IInv, stage \in {"stream", "done"}
               PROVE  got = Sanitized(reply) /\ (format # "tools" => Said(out) = got)
    BY DEF DeltasAddUp
  <2>1. got = Sanitized(reply)
    BY DEF AnswerFits
  <2>2. format # "tools" => Said(out) = sent /\ sent = got
    BY DEF TextSound, EventsFit, SentFits
  <2> QED
    BY <2>1, <2>2
<1> QED
  BY <1>1, <1>2, <1>3, PTL DEF TextSpec

(* Blocks are numbered without gaps, one is open at a time and all are closed before the   *)
(* end (anthropic_v1_messages.py), if the upstream takes nothing back, closes its calls    *)
(* and writes nothing behind them.                                                         *)
THEOREM TextBlocksWellFormed ==
  ASSUME ~Loose, ~Rewrites, HistoryApart
  PROVE  TextSpec => []BlocksWellFormed
<1> DEFINE IInv == TextSound /\ AnswerFits /\ BlocksWellFormed
<1>1. TextInit => IInv
  <2>1. TextInit => BlocksWellFormed
    BY DEF TextInit, BlocksWellFormed
  <2> QED
    BY <2>1, TextStarts, AnswerStarts
<1>2. IInv /\ [TextNext]_textVars => IInv'
  BY TextSteps, AnswerSteps, BlockSteps
<1> QED
  BY <1>1, <1>2, PTL DEF TextSpec

(* A client that streams is told the same text and the same calls as one that does not     *)
(* (content_blocks), and besides only the beginning of a first tag that came in parts, of  *)
(* such an upstream and an answer without spaces: those that a stream has passed on can    *)
(* not be trimmed any more.                                                                *)
THEOREM TextSameAsWhole ==
  ASSUME ~Loose, ~Rewrites, Spaceless, HistoryApart
  PROVE  TextSpec => []SameAsWhole
<1> DEFINE IInv == TextSound /\ AnswerFits /\ WordsSent /\ SameAsWhole
<1>1. TextInit => IInv
  <2>1. TextInit => WordsSent /\ SameAsWhole
    BY DEF TextInit, WordsSent, SameAsWhole
  <2> QED
    BY <2>1, TextStarts, AnswerStarts
<1>2. IInv /\ [TextNext]_textVars => IInv'
  <2> SUFFICES ASSUME IInv, [TextNext]_textVars PROVE IInv'
    OBVIOUS
  <2>1. TextSound' /\ AnswerFits'
    BY TextSteps, AnswerSteps
  <2>2. WordsSent'
    BY <2>1, WordsSteps
  <2>3. SameAsWhole'
    BY WholeSteps
  <2> QED
    BY <2>1, <2>2, <2>3
<1> QED
  BY <1>1, <1>2, PTL DEF TextSpec
=============================================================================
