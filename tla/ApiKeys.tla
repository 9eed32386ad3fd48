------------------------------ MODULE ApiKeys ------------------------------
(***************************************************************************)
(* The keys that clients authenticate with (services/auth_service.py):     *)
(* every worker process keeps the list in memory, an administrator's call  *)
(* reloads it, changes it and saves the whole list back, and an            *)
(* authentication trusts the memory, saving the list at most once a minute *)
(* to record when a key was used.                                          *)
(*                                                                         *)
(* A key is on, off or none (unknown).  A call runs under its process's    *)
(* lock and has two steps, since another process may save between its      *)
(* reload and its save.  How keys are drawn, hashed and named, and usage   *)
(* counts, which no caller records, are left out.                          *)
(***************************************************************************)

CONSTANTS Key,      \* the keys that may be created
          Worker,   \* the processes that serve the API
          SaveFails \* whether a save may raise

VARIABLES
    mem,      \* _items of each process
    disk,     \* the storage backend
    call,     \* what the administrator's call of a process is saving
    flushed,  \* keys whose use a process saved in the last 60 seconds
    told,     \* what the administrator was last told of a key
    doubt     \* what calls that failed since then asked for

keyVars == <<mem, disk, call, flushed, told, doubt>>

Status == {"none", "on", "off"}
Items == [Key -> Status]
Idle == [key |-> "nokey", to |-> "none"]

KeyTypeOK ==
    /\ mem \in [Worker -> Items]
    /\ disk \in Items
    /\ call \in [Worker -> [key : Key, to : Status] \cup {Idle}]
    /\ flushed \in [Worker -> SUBSET Key]
    /\ told \in [Key -> Status \cup {"unused"}]
    /\ doubt \in [Key -> SUBSET Status]

KeyInit ==
    /\ disk = [k \in Key |-> "none"]
    /\ mem = [w \in Worker |-> disk]
    /\ call = [w \in Worker |-> Idle]
    /\ flushed = [w \in Worker |-> {}]
    /\ told = [k \in Key |-> "unused"]
    /\ doubt = [k \in Key |-> {}]

-----------------------------------------------------------------------------
(* The administrator's calls. *)

\* _reload_locked, and the change in memory.
Change(w, k, to) ==
    /\ call[w] = Idle
    /\ mem' = [mem EXCEPT ![w] = [disk EXCEPT ![k] = to]]
    /\ call' = [call EXCEPT ![w] = [key |-> k, to |-> to]]
    /\ UNCHANGED <<disk, flushed>>

\* create_key draws an id that was never in use.
Create(w, k) ==
    /\ told[k] = "unused"
    /\ told' = [told EXCEPT ![k] = "none"]
    /\ Change(w, k, "on")
    /\ UNCHANGED doubt

\* update_key and revoke: a key that the storage does not know is refused.
UpdateKey(w, k, to) ==
    /\ disk[k] # "none"
    /\ to \in {"on", "off"}
    /\ Change(w, k, to)
    /\ UNCHANGED <<told, doubt>>

DeleteKey(w, k) ==
    /\ disk[k] # "none"
    /\ Change(w, k, "none")
    /\ UNCHANGED <<told, doubt>>

Saved(w) ==
    LET k == call[w].key IN
    /\ call[w] # Idle
    /\ disk' = mem[w]
    /\ told' = [told EXCEPT ![k] = call[w].to]
    /\ doubt' = [doubt EXCEPT ![k] = {}]
    /\ call' = [call EXCEPT ![w] = Idle]
    /\ UNCHANGED <<mem, flushed>>

\* Mutant: the error of the save is swallowed.
SaveRaisesUnnoticed(w) ==
    /\ SaveFails
    /\ call[w] # Idle
    /\ told' = [told EXCEPT ![call[w].key] = call[w].to]
    /\ call' = [call EXCEPT ![w] = Idle]
    /\ UNCHANGED <<mem, disk, flushed, doubt>>

\* The save raises: the call answers with an error, the memory keeps the change.
SaveRaises(w) ==
    LET k == call[w].key IN
    /\ SaveFails
    /\ call[w] # Idle
    /\ doubt' = [doubt EXCEPT ![k] = @ \cup {call[w].to}]
    /\ call' = [call EXCEPT ![w] = Idle]
    /\ UNCHANGED <<mem, disk, flushed, told>>

\* list_keys reloads.
ListKeys(w) ==
    /\ call[w] = Idle
    /\ mem' = [mem EXCEPT ![w] = disk]
    /\ UNCHANGED <<disk, call, flushed, told, doubt>>

-----------------------------------------------------------------------------
(* Requests, time and restarts. *)

\* authenticate goes by the memory alone; a save that fails is tried again at
\* the next use.
Authenticate(w, k) ==
    /\ call[w] = Idle
    /\ mem[w][k] = "on"
    /\ k \notin flushed[w]
    /\ disk' = mem[w]
    /\ flushed' = [flushed EXCEPT ![w] = @ \cup {k}]
    /\ UNCHANGED <<mem, call, told, doubt>>

MinutePasses(w, k) ==
    /\ k \in flushed[w]
    /\ flushed' = [flushed EXCEPT ![w] = @ \ {k}]
    /\ UNCHANGED <<mem, disk, call, told, doubt>>

\* A call that was under way got no answer.
RestartWorker(w) ==
    /\ mem' = [mem EXCEPT ![w] = disk]
    /\ call' = [call EXCEPT ![w] = Idle]
    /\ flushed' = [flushed EXCEPT ![w] = {}]
    /\ doubt' = IF call[w] = Idle THEN doubt
                ELSE [doubt EXCEPT ![call[w].key] = @ \cup {call[w].to}]
    /\ UNCHANGED <<disk, told>>

KeyNext ==
    \E w \in Worker :
        \/ \E k \in Key : \/ Create(w, k)
                          \/ \E to \in {"on", "off"} : UpdateKey(w, k, to)
                          \/ DeleteKey(w, k)
                          \/ Authenticate(w, k)
                          \/ MinutePasses(w, k)
        \/ Saved(w)
        \/ SaveRaises(w)
        \/ ListKeys(w)
        \/ RestartWorker(w)

KeySpec == KeyInit /\ [][KeyNext]_keyVars

-----------------------------------------------------------------------------
(* What the administrator was told. *)

\* The states that a key may be in, as far as the administrator knows: as he was
\* last told, or as a call asked for that failed or is under way.
Believed(k) ==
    {IF told[k] = "unused" THEN "none" ELSE told[k]} \cup doubt[k]
        \cup {call[w].to : w \in {v \in Worker : call[v].key = k}}

\* A key is what the administrator was last told, in the storage and for every
\* process that answers requests: a revoked or deleted key is refused and does not
\* come back with the save that records the use of another key
\* (services/auth_service.py:335-360).
KeysAreAsTold ==
    \A k \in Key :
        /\ disk[k] \in Believed(k)
        /\ \A w \in Worker : mem[w][k] \in Believed(k)

=============================================================================
