------------------------- MODULE ChatCompletionCache -------------------------
(***************************************************************************)
(* The cache of text completions                                           *)
(* (services/protocol/chat_completion_cache.py): entries that expire, and  *)
(* calls in flight that equal requests join.                               *)
(*                                                                         *)
(* A request runs on a thread of the pool.  A streaming one is a generator *)
(* which is resumed for each chunk (log_service.LoggedCall, Starlette), by *)
(* whatever thread is free, and a replay yields while it holds a lock.     *)
(* Locks are reentrant and belong to the thread that took them.  One step  *)
(* is a section under a lock or the code up to the next yield.             *)
(***************************************************************************)
EXTENDS Naturals, Sequences, FiniteSets, SequencesExt

CONSTANTS
  Request,
  Streamed,     \* the requests that ask for a stream
  Key,
  KeyOf,
  Thread,       \* the worker threads
  Loop,         \* the event loop's thread: it closes generators
  Nobody,       \* no thread, no request
  Cache,        \* the name of the cache's own lock
  Chunks,       \* bound: chunks of an answer
  MaxEntries,
  Dedupe        \* dedupe_inflight

VARIABLES
  entries,    \* _entries: keys, the one that expires first at the head
  value,      \* the request that computed the entry of each key
  inflight,   \* _inflight: the call to join, named for the request that owns it
  done,       \* InflightCall.done and .error of each request's call
  lock,       \* Cache and each call's condition: the thread and how often
  pc, on,     \* where each request is, and the thread that executes it
  sent,       \* chunks delivered
  source,     \* whose answer a request returns, or whose call it joined
  held        \* the lock a replay yields under

vars == <<entries, value, inflight, done, lock, pc, on, sent, source, held>>

Open == [by |-> Nobody, n |-> 0]

Init ==
  /\ entries = <<>>
  /\ value = [k \in Key |-> Nobody]
  /\ inflight = [k \in Key |-> Nobody]
  /\ done = [r \in Request |-> "no"]
  /\ lock = [l \in Request \cup {Cache} |-> Open]
  /\ pc = [r \in Request |-> "lookup"]
  /\ on = [r \in Request |-> Nobody]
  /\ sent = [r \in Request |-> 0]
  /\ source = [r \in Request |-> r]
  /\ held = [r \in Request |-> Cache]

(* A thread may take a lock that is open or its own. *)
MayTake(l, th) == lock[l].by \in {Nobody, th}

Taken(l, th) == [lock EXCEPT ![l] = [by |-> th, n |-> @.n + 1]]

Released(l) == [lock EXCEPT ![l] = IF @.n = 1 THEN Open ELSE [@ EXCEPT !.n = @ - 1]]

cacheVars == <<entries, value, inflight>>

(* Request r goes on at another place; a finished one leaves its thread.   *)
Over == {"answered", "failed", "broken"}
Goto(r, to) ==
  /\ pc' = [pc EXCEPT ![r] = to]
  /\ on' = IF to \in Over THEN [on EXCEPT ![r] = Nobody] ELSE on

(* It delivers under lock l, or is answered at once. *)
Deliver(r, l) ==
  IF r \in Streamed
    THEN /\ lock' = Taken(l, on[r])
         /\ held' = [held EXCEPT ![r] = l]
         /\ Goto(r, "replay")
    ELSE UNCHANGED <<lock, held>> /\ Goto(r, "answered")

At(r, from) == pc[r] = from /\ on[r] # Nobody

-----------------------------------------------------------------------------
(* A free thread takes r, or resumes its generator. *)
Schedule(r, th) ==
  /\ pc[r] \notin Over
  /\ on[r] = Nobody
  /\ \A q \in Request : on[q] \notin {th, Loop}
  /\ on' = [on EXCEPT ![r] = th]
  /\ UNCHANGED <<cacheVars, done, lock, pc, sent, source, held>>

(* The call in flight that a request for k joins.  Mutant: it joins none. *)
JoinsNone(k) == Nobody
Joins(k) == IF Dedupe THEN inflight[k] ELSE Nobody

(* The first section: an entry is found, ... *)
Hit(r) ==
  LET k == KeyOf[r]
  IN /\ At(r, "lookup") /\ MayTake(Cache, on[r])
     /\ value[k] # Nobody
     /\ source' = [source EXCEPT ![r] = value[k]]
     /\ Deliver(r, Cache)
     /\ UNCHANGED <<cacheVars, done, sent>>

(* ... or a call is joined, ... *)
Join(r) ==
  LET k == KeyOf[r]
  IN /\ At(r, "lookup") /\ MayTake(Cache, on[r])
     /\ value[k] = Nobody /\ Joins(k) # Nobody
     /\ source' = [source EXCEPT ![r] = Joins(k)]
     /\ Goto(r, "wait")
     /\ UNCHANGED <<cacheVars, done, lock, sent, held>>

(* ... or r owns a call of its own. *)
Own(r) ==
  LET k == KeyOf[r]
  IN /\ At(r, "lookup") /\ MayTake(Cache, on[r])
     /\ value[k] = Nobody /\ Joins(k) = Nobody
     /\ inflight' = IF Dedupe THEN [inflight EXCEPT ![k] = r] ELSE inflight
     /\ Goto(r, "compute")
     /\ UNCHANGED <<entries, value, done, lock, sent, source, held>>

(* A joined call is done.  Until then its condition lets others in. *)
Joined(r) ==
  LET c == source[r]
  IN /\ At(r, "wait") /\ done[c] # "no" /\ MayTake(c, on[r])
     /\ IF done[c] = "value"
          THEN Deliver(r, c)
          ELSE UNCHANGED <<lock, held>> /\ Goto(r, "failed")
     /\ UNCHANGED <<cacheVars, done, sent, source>>

-----------------------------------------------------------------------------
(* The owner computes; a generator yields after each chunk. *)
Yield(r) ==
  /\ pc[r] \in {"compute", "replay"} /\ on[r] # Nobody
  /\ r \in Streamed /\ sent[r] < Chunks
  /\ sent' = [sent EXCEPT ![r] = @ + 1]
  /\ on' = [on EXCEPT ![r] = Nobody]
  /\ UNCHANGED <<cacheVars, done, lock, pc, source, held>>

Finish(r) ==
  /\ At(r, "compute")
  /\ r \in Streamed => sent[r] = Chunks
  /\ Goto(r, "store")
  /\ UNCHANGED <<cacheVars, done, lock, sent, source, held>>

Fail(r) ==
  /\ At(r, "compute")
  /\ Goto(r, "drop")
  /\ UNCHANGED <<cacheVars, done, lock, sent, source, held>>

(* The sections that end a call: the cache first, then its condition.      *)
(* _prune_locked drops the entry that expires first.                       *)
Store(r) ==
  LET k == KeyOf[r]
      kept == Append(Remove(entries, k), k)
      pruned == IF Len(kept) > MaxEntries THEN Tail(kept) ELSE kept
  IN /\ At(r, "store") /\ MayTake(Cache, on[r])
     /\ entries' = pruned
     /\ value' = [l \in Key |-> IF l \notin ToSet(pruned) THEN Nobody
                              ELSE IF l = k THEN r ELSE value[l]]
     /\ inflight' = [inflight EXCEPT ![k] = Nobody]
     /\ Goto(r, "publish")
     /\ UNCHANGED <<done, lock, sent, source, held>>

Drop(r) ==
  /\ At(r, "drop") /\ MayTake(Cache, on[r])
  /\ inflight' = [inflight EXCEPT ![KeyOf[r]] = Nobody]
  /\ Goto(r, "publishError")
  /\ UNCHANGED <<entries, value, done, lock, sent, source, held>>

(* Mutant: only a value wakes those who joined. *)
PublishedValue(r) == IF pc[r] = "publish" THEN "value" ELSE "no"
Published(r) == IF pc[r] = "publish" THEN "value" ELSE "error"

Publish(r) ==
  /\ At(r, "publish") \/ At(r, "publishError")
  /\ MayTake(r, on[r])
  /\ done' = [done EXCEPT ![r] = Published(r)]
  /\ Goto(r, IF pc[r] = "publish" THEN "answered" ELSE "failed")
  /\ UNCHANGED <<cacheVars, lock, sent, source, held>>

(* A replay is over, or closed: the with statement releases the lock,      *)
(* which raises in a thread that does not own it.                          *)
EndReplay(r) ==
  LET l == held[r]
  IN /\ pc[r] \in {"replay", "close"} /\ on[r] # Nobody
     /\ pc[r] = "replay" => sent[r] = Chunks
     /\ IF lock[l].by = on[r]
          THEN lock' = Released(l) /\ Goto(r, "answered")
          ELSE UNCHANGED lock /\ Goto(r, "broken")
     /\ UNCHANGED <<cacheVars, done, sent, source, held>>

(* What GeneratorExit makes of an owner.  Mutant: the chunks so *)
(* far are stored.                                                         *)
StoredAsItIs == "store"
WhenClosed == "drop"

(* The client of a stream is gone. *)
Close(r) ==
  /\ r \in Streamed /\ sent[r] > 0 /\ on[r] = Nobody
  /\ pc[r] \in {"compute", "replay"}
  /\ \A q \in Request : on[q] # Loop
  /\ pc' = [pc EXCEPT ![r] = IF pc[r] = "replay" THEN "close" ELSE WhenClosed]
  /\ on' = IF pc'[r] \in Over THEN on ELSE [on EXCEPT ![r] = Loop]
  /\ UNCHANGED <<cacheVars, done, lock, sent, source, held>>

(* The entry that expires first expires. *)
Expire ==
  /\ entries # <<>>
  /\ entries' = Tail(entries)
  /\ value' = [value EXCEPT ![Head(entries)] = Nobody]
  /\ UNCHANGED <<inflight, done, lock, pc, on, sent, source, held>>

-----------------------------------------------------------------------------
Run(r) ==
  \/ \E th \in Thread : Schedule(r, th)
  \/ Hit(r) \/ Join(r) \/ Own(r) \/ Joined(r)
  \/ Yield(r) \/ Finish(r) \/ Store(r) \/ Drop(r) \/ Publish(r) \/ EndReplay(r)

Next ==
  \/ \E r \in Request : Run(r) \/ Fail(r) \/ Close(r)
  \/ Expire

Spec == Init /\ [][Next]_vars

(* Threads run, upstream answers end, clients read on or leave. *)
FairSpec == Spec /\ \A r \in Request : WF_vars(Run(r))

-----------------------------------------------------------------------------
(* The type invariant. *)
TypeOK ==
  /\ entries \in Seq(Key) /\ Len(entries) <= MaxEntries /\ IsInjective(entries)
  /\ value \in [Key -> Request \cup {Nobody}]
  /\ \A k \in Key : value[k] # Nobody <=> k \in ToSet(entries)
  /\ inflight \in [Key -> Request \cup {Nobody}]
  /\ done \in [Request -> {"no", "value", "error"}]
  /\ \A l \in Request \cup {Cache} :
       lock[l] = Open \/ (lock[l].by \in Thread \cup {Loop} /\ lock[l].n > 0)
  /\ pc \in [Request -> Over \cup {"lookup", "wait", "compute", "replay", "close", "store",
                                   "drop", "publish", "publishError"}]
  /\ on \in [Request -> Thread \cup {Loop, Nobody}]
  /\ sent \in [Request -> 0..Chunks]
  /\ source \in [Request -> Request]
  /\ held \in [Request -> Request \cup {Cache}]

(* The requests that have a call for key k under way. *)
Calling == {"compute", "store", "drop"}
Computing(k) == {r \in Request : KeyOf[r] = k /\ pc[r] \in Calling}

(* Equal requests are merged: for a key at most one upstream call is under *)
(* way, and none while its answer is cached.                               *)
OneCallPerKey ==
  Dedupe => \A k \in Key : Cardinality(Computing(k)) <= (IF value[k] = Nobody THEN 1 ELSE 0)

(* A call that can be joined will be ended: its owner is still on the way  *)
(* there, whether upstream failed it or its client left it.                *)
InflightIsOwned ==
  \A k \in Key : inflight[k] # Nobody => inflight[k] \in Computing(k)

(* Equal requests share one call, and one that can be joined has an owner  *)
(* who ends it.                                                            *)
CallsAreShared == OneCallPerKey /\ InflightIsOwned

(* What is cached, and what a request gets from another, is a whole answer *)
(* to its own question, never the part a client left behind.               *)
AnswersAreWhole ==
  /\ \A k \in Key : LET r == value[k] IN r # Nobody => KeyOf[r] = k /\ (r \in Streamed => sent[r] = Chunks)
  /\ \A r \in Request : pc[r] \in {"replay", "answered"} /\ source[r] # r =>
       LET c == source[r]
       IN KeyOf[c] = KeyOf[r] /\ (c \in Streamed => sent[c] = Chunks)

(* A replay of cached chunks ends as the stream it repeats ended: without  *)
(* an error of its own.                                                    *)
ReplayCompletes == \A r \in Request : pc[r] # "broken"

(* Every request is answered, or fails with its upstream call. *)
EventuallyOver == \A r \in Request : <>(pc[r] \in Over)
=============================================================================
