----------------------------- MODULE SessionPool -----------------------------
(***************************************************************************)
(* The pool of upstream HTTP sessions (services/session_pool.py) and its   *)
(* users: OpenAIBackendAPI and the refresh of access tokens.  A session    *)
(* may have several users, who share an account and a fingerprint; a user  *)
(* who polls for a long time takes it out of the pool.                     *)
(*                                                                         *)
(* One action is one section under SessionPool._lock, or one step outside  *)
(* of it.  Time is a choice: entries age, connections are lost.            *)
(***************************************************************************)
EXTENDS Naturals, Sequences, FiniteSets, SequencesExt

CONSTANTS
  Key,         \* account, proxy, browser, fingerprint
  Session,     \* each is created once
  User,
  NoSession,
  MaxEntries,  \* _max_entries at the start
  MinSize,
  Cleaning     \* check_leaks runs

ASSUME SizeAssumption == MaxEntries \in Nat \ {0} /\ MinSize \in Nat
ASSUME CleaningAssumption == Cleaning \in BOOLEAN
ASSUME NoSessionAssumption == NoSession \notin Session

VARIABLES
  pool,     \* _sessions
  order,    \* the keys in it, the oldest created_at first
  limit,    \* _max_entries
  old,      \* the keys whose created_at is older than the time to live
  worn,     \* the sessions whose connection is
  borrowed, \* _borrowed
  live,     \* "none", "open", "lost" (by the network) or "closed"
  pooled,   \* the sessions that carry _chatgpt2api_pooled and _pool_key
  madeFor,  \* _pool_key
  pc, key, holds,    \* each user
  cleaner,  \* cleanup_stale: where it is, the key and the session it looks at
  swept     \* history: what cleanup_stale dropped without having looked at it

sessionVars == <<live, pooled, madeFor>>
poolVars == <<pool, order, old, borrowed>>
userVars == <<pc, key, holds>>
cleanerVars == <<cleaner, swept>>
vars == <<poolVars, limit, worn, sessionVars, userVars, cleanerVars>>

Resting(k) == [at |-> "rest", key |-> k, session |-> NoSession]

Init ==
  /\ pool = [k \in Key |-> NoSession]
  /\ order = <<>>
  /\ limit = MaxEntries
  /\ old = {} /\ worn = {} /\ borrowed = {}
  /\ live = [s \in Session |-> "none"]
  /\ pooled = {}
  /\ madeFor \in [Session -> Key]
  /\ pc = [u \in User |-> "start"]
  /\ key \in [User -> Key]
  /\ holds = [u \in User |-> NoSession]
  /\ cleaner \in {Resting(k) : k \in Key}
  /\ swept = {}

(* The entries of keys ks leave the pool. *)
Without(ks) ==
  /\ pool' = [k \in Key |-> IF k \in ks THEN NoSession ELSE pool[k]]
  /\ order' = SelectSeq(order, LAMBDA k : k \notin ks)
  /\ old' = old \ ks
  /\ borrowed' = borrowed \ ks

With(k, s) ==
  /\ pool' = [pool EXCEPT ![k] = s]
  /\ order' = Append(order, k)
  /\ old' = old \ {k}

Closed(ss) == [s \in Session |-> IF s \in ss THEN "closed" ELSE live[s]]

(* Mutant: entries are dropped and their sessions left open. *)
DiscardOpen(ks) == Without(ks) /\ UNCHANGED live
Discard(ks) == Without(ks) /\ live' = Closed({pool[k] : k \in ks})

Goto(u, from, to) ==
  /\ pc[u] = from
  /\ pc' = [pc EXCEPT ![u] = to]

Unchanged == UNCHANGED <<limit, worn, pooled, madeFor, key, cleanerVars>>

-----------------------------------------------------------------------------
(* The entry for a key.  Mutant: that of any account will do. *)
FoundForAny(k) ==
  IF pool[k] = NoSession /\ order # <<>> THEN pool[Head(order)] ELSE pool[k]
Found(k) == pool[k]

(* get: phase 1 finds an entry that is not expired, or discards it. *)
Find(u) ==
  LET k == key[u]
      s == Found(k)
  IN /\ \/ s = NoSession /\ Goto(u, "start", "create") /\ UNCHANGED <<poolVars, live, holds>>
        \/ /\ s # NoSession /\ (k \in old \/ s \in worn)
           /\ Goto(u, "start", "create") /\ Discard({k}) /\ UNCHANGED holds
        \/ /\ s # NoSession /\ k \notin old /\ s \notin worn
           /\ Goto(u, "start", "check")
           /\ holds' = [holds EXCEPT ![u] = s]
           /\ UNCHANGED <<poolVars, live>>
     /\ Unchanged

(* Phase 2: the health check outside the lock may fail on a good session, *)
(* never succeeds on a bad one; a bad one is discarded if still pooled.    *)
Check(u) ==
  /\ \/ Goto(u, "check", "mark") /\ live[holds[u]] = "open"
     \/ Goto(u, "check", "bad")
  /\ UNCHANGED <<poolVars, live, holds>> /\ Unchanged

Reject(u) ==
  /\ Goto(u, "bad", "create")
  /\ IF pool[key[u]] = holds[u] THEN Discard({key[u]}) ELSE UNCHANGED <<poolVars, live>>
  /\ holds' = [holds EXCEPT ![u] = NoSession]
  /\ Unchanged

(* Phase 3; when five attempts fail, get raises. *)
Create(u) ==
  /\ \/ \E s \in Session :
          /\ live[s] = "none"
          /\ Goto(u, "create", "insert")
          /\ live' = [live EXCEPT ![s] = "open"]
          /\ pooled' = pooled \cup {s}
          /\ madeFor' = [madeFor EXCEPT ![s] = key[u]]
          /\ holds' = [holds EXCEPT ![u] = s]
     \/ Goto(u, "create", "over") /\ UNCHANGED <<sessionVars, holds>>
  /\ UNCHANGED <<poolVars, limit, worn, key, cleanerVars>>

(* _adaptive_grow.  A limit that no pool of these sessions reaches counts  *)
(* as one more than their number.                                          *)
Grown(n) ==
  LET next == IF limit + 10 < (limit * 3) \div 2 THEN limit + 10 ELSE (limit * 3) \div 2
  IN IF n >= limit \/ n < MinSize THEN limit
     ELSE IF next > Cardinality(Session) THEN Cardinality(Session) + 1 ELSE next

(* Phase 4: the oldest entry is evicted from a full pool; then the new     *)
(* session is pooled, or closed in favour of one another user pooled.      *)
Insert(u) ==
  LET k == key[u]
      s == holds[u]
      evicted == IF Len(order) >= limit THEN {Head(order)} ELSE {}
      closing == {pool[e] : e \in evicted}
  IN /\ \/ /\ pool[k] # NoSession /\ k \notin evicted
           /\ Goto(u, "insert", "use")
           /\ pool' = [e \in Key |-> IF e \in evicted THEN NoSession ELSE pool[e]]
           /\ order' = SelectSeq(order, LAMBDA e : e \notin evicted)
           /\ old' = old \ evicted
           /\ borrowed' = (borrowed \ evicted) \cup {k}
           /\ live' = Closed(closing \cup {s})
           /\ holds' = [holds EXCEPT ![u] = pool[k]]
           /\ UNCHANGED limit
        \/ /\ pool[k] = NoSession \/ k \in evicted
           /\ Goto(u, "insert", "mark")
           /\ pool' = [e \in Key |-> IF e = k THEN s ELSE IF e \in evicted THEN NoSession ELSE pool[e]]
           /\ order' = Append(SelectSeq(order, LAMBDA e : e \notin evicted), k)
           /\ old' = old \ (evicted \cup {k})
           /\ borrowed' = borrowed \ evicted
           /\ live' = Closed(closing)
           /\ limit' = Grown(Len(order'))
           /\ UNCHANGED holds
     /\ UNCHANGED <<worn, pooled, madeFor, key, cleanerVars>>

(* _record_get_result *)
Mark(u) ==
  /\ Goto(u, "mark", "use")
  /\ borrowed' = borrowed \cup {key[u]}
  /\ UNCHANGED <<pool, order, old, live, holds>> /\ Unchanged

-----------------------------------------------------------------------------
(* _poll_image_results: a pooled session is taken out. *)
Steal(u) ==
  /\ holds[u] \in pooled
  /\ Goto(u, "use", "shrink") \/ Goto(u, "use", "remove")
  /\ UNCHANGED <<poolVars, live, holds>> /\ Unchanged

(* remove: the third error in a row shrinks the pool, unless it did so     *)
(* lately.  Both counts are left out: Steal chooses.                       *)
Shrink(u) ==
  LET n == Len(order)
      oldest == SubSeq(order, 1, IF n \div 5 > 1 THEN n \div 5 ELSE 1)
  IN /\ Goto(u, "shrink", "remove")
     /\ IF n <= MinSize \/ n = 0 THEN UNCHANGED <<poolVars, live>> ELSE Discard(ToSet(oldest))
     /\ UNCHANGED holds /\ Unchanged

TakeOut(u) ==
  LET s == holds[u]
      ks == {k \in Key : pool[k] = s}
  IN /\ Goto(u, "remove", "poll")
     /\ Without(ks)
     /\ pooled' = IF ks = {} THEN pooled ELSE pooled \ {s}
     /\ UNCHANGED <<live, limit, worn, madeFor, key, holds, cleanerVars>>

(* OpenAIBackendAPI.close: a session without marks is closed, any other    *)
(* released.  release reads the key before it takes the lock.              *)
Finish(u) ==
  LET s == holds[u]
  IN /\ \E from \in {"use", "poll"} :
          IF s \in pooled THEN Goto(u, from, "release") /\ UNCHANGED live
          ELSE Goto(u, from, "over") /\ live' = Closed({s})
     /\ holds' = IF s \in pooled THEN holds ELSE [holds EXCEPT ![u] = NoSession]
     /\ UNCHANGED poolVars /\ Unchanged

ReadKey(u) ==
  /\ IF holds[u] \in pooled
       THEN Goto(u, "release", "repool") /\ UNCHANGED holds
       ELSE Goto(u, "release", "over") /\ holds' = [holds EXCEPT ![u] = NoSession]
  /\ UNCHANGED <<poolVars, live>> /\ Unchanged

Vacant(k) == pool[k] = NoSession

Repool(u) ==
  LET s == holds[u]
      k == madeFor[s]
  IN /\ Goto(u, "repool", "over")
     /\ borrowed' = borrowed \ {k}
     /\ IF Vacant(k) THEN With(k, s) ELSE UNCHANGED <<pool, order, old>>
     /\ holds' = [holds EXCEPT ![u] = NoSession]
     /\ UNCHANGED live /\ Unchanged

-----------------------------------------------------------------------------
(* cleanup_stale, for one key that leak_report named. *)
Look ==
  /\ Cleaning /\ cleaner.at = "rest"
  /\ \E k \in old \ borrowed :
       cleaner' = [at |-> "check", key |-> k, session |-> pool[k]]
  /\ UNCHANGED <<poolVars, limit, worn, sessionVars, userVars, swept>>

CheckIdle ==
  /\ cleaner.at = "check"
  /\ \/ live[cleaner.session] = "open" /\ cleaner' = Resting(cleaner.key)
     \/ cleaner' = [cleaner EXCEPT !.at = "drop"]
  /\ UNCHANGED <<poolVars, limit, worn, sessionVars, userVars, swept>>

(* What is pooled now is dropped, what was looked at is closed. *)
DropIdle ==
  /\ cleaner.at = "drop"
  /\ cleaner' = Resting(cleaner.key)
  /\ Without({cleaner.key})
  /\ live' = IF pool[cleaner.key] = NoSession THEN live ELSE Closed({cleaner.session})
  /\ swept' = swept \cup ({pool[cleaner.key]} \ {NoSession, cleaner.session})
  /\ UNCHANGED <<limit, worn, pooled, madeFor, userVars>>

(* invalidate, of an account whose token is; close_all, at shutdown. *)
Invalidate(ks) ==
  /\ \E k \in ks : pool[k] # NoSession
  /\ Discard({k \in ks : pool[k] # NoSession})
  /\ UNCHANGED <<limit, worn, pooled, madeFor, userVars, cleanerVars>>

(* Time, and the network. *)
Age(k) ==
  /\ pool[k] # NoSession
  /\ old' = old \cup {k}
  /\ worn' = worn \cup {pool[k]}
  /\ UNCHANGED <<pool, order, borrowed, limit, sessionVars, userVars, cleanerVars>>

Disconnect(s) ==
  /\ live[s] = "open"
  /\ live' = [live EXCEPT ![s] = "lost"]
  /\ UNCHANGED <<poolVars, limit, worn, pooled, madeFor, userVars, cleanerVars>>

-----------------------------------------------------------------------------
Get(u) == Find(u) \/ Check(u) \/ Reject(u) \/ Create(u) \/ Insert(u) \/ Mark(u)
Poll(u) == Steal(u) \/ Shrink(u) \/ TakeOut(u)
Release(u) == Finish(u) \/ ReadKey(u) \/ Repool(u)

Next ==
  \/ \E u \in User : Get(u) \/ Poll(u) \/ Release(u)
  \/ Look \/ CheckIdle \/ DropIdle
  \/ \E k \in Key : Invalidate({k}) \/ Age(k)
  \/ Invalidate(Key)
  \/ \E s \in Session : Disconnect(s)

Spec == Init /\ [][Next]_vars

-----------------------------------------------------------------------------
Statuses == {"start", "check", "bad", "create", "insert", "mark", "use", "shrink", "remove",
             "poll", "release", "repool", "over"}

(* The type invariant. *)
TypeOK ==
  /\ pool \in [Key -> Session \cup {NoSession}]
  /\ IsInjective(order) /\ ToSet(order) = {k \in Key : pool[k] # NoSession}
  /\ limit \in Nat
  /\ old \subseteq ToSet(order) /\ worn \subseteq Session /\ borrowed \subseteq Key
  /\ live \in [Session -> {"none", "open", "lost", "closed"}]
  /\ pooled \subseteq Session
  /\ madeFor \in [Session -> Key]
  /\ pc \in [User -> Statuses]
  /\ key \in [User -> Key]
  /\ holds \in [User -> Session \cup {NoSession}]
  /\ cleaner \in [at : {"rest", "check", "drop"}, key : Key, session : Session \cup {NoSession}]
  /\ swept \subseteq Session

Pooled(s) == \E k \in Key : pool[k] = s
Held(s) == \E u \in User : holds[u] = s /\ pc[u] \notin {"check", "bad"}

(* No connection leaks: a session that was created and not closed is in    *)
(* the pool, or somebody has it who will give it back or close it, unless  *)
(* cleanup_stale dropped it in place of the one it had found dead.         *)
NoneForgotten ==
  \A s \in Session : live[s] \in {"open", "lost"} => Pooled(s) \/ Held(s) \/ s \in swept

(* Accounts do not mix: whoever has a session, and every key of the pool,  *)
(* has one that was created for that key.                                  *)
SessionsMatchKeys ==
  /\ \A k \in Key : pool[k] # NoSession => madeFor[pool[k]] = k
  /\ \A u \in User : holds[u] # NoSession => madeFor[holds[u]] = key[u]

(* What remove's comment promises: a session that was closed does not      *)
(* return to the pool, where the next request would find it.               *)
PooledIsOpen == \A k \in Key : pool[k] # NoSession => live[pool[k]] # "closed"

(* What the comment in _poll_image_results says the removal is for: no     *)
(* session is closed while a user polls with it.                           *)
PollingStaysOpen ==
  [][\A u \in User : pc[u] = "poll" /\ pc'[u] = "poll" /\ live[holds[u]] # "closed"
       => live'[holds[u]] # "closed"]_vars

(* What cleanup_stale says of itself: it removes only a connection that it *)
(* has found dead.                                                         *)
CleansOnlyDead == swept = {}
=============================================================================
