----------------------------- MODULE RateLimiter -----------------------------
(***************************************************************************)
(* The limits on requests per minute (api/rate_limit.py), for everybody    *)
(* and for each client's address, in several worker processes.  Without    *)
(* redis_url each process counts the requests of the last window; with it  *)
(* all count the current slot of the clock in Redis, and a process that    *)
(* cannot reach Redis counts on its own (services/shared_state.py).        *)
(*                                                                         *)
(* A process runs the middleware in one thread: an action is one check.    *)
(* Time passes in ticks.  A deque of timestamps is the number of requests  *)
(* of each age; those older than the window count no more, and nothing     *)
(* reads a slot of the clock that is over.                                 *)
(***************************************************************************)
EXTENDS Naturals, Sequences

CONSTANTS
  Process,
  Ip,
  None,
  Window,       \* window_seconds, in ticks, at least one
  MaxIps,       \* _MAX_IP_ENTRIES, at least one
  Options       \* the settings to consider: redis_url, the two limits, workers,
                \* and the addresses that clients come from

ASSUME LimitAssumption ==
  /\ Window \in Nat \ {0} /\ MaxIps \in Nat \ {0}
  /\ "redis" \notin Process /\ "global" \notin Ip
  /\ \A o \in Options :
       o \in [redis : BOOLEAN, global : Nat, ip : Nat, workers : SUBSET Process, from : SUBSET Ip]

LimitKey == {"global"} \cup Ip
Source == {"redis"} \cup Process      \* who let a request pass
Age == 0 .. Window

VARIABLES
  option,     \* redis_url is set, the two limits, workers; where clients come from
  up,         \* Redis answers
  phase,      \* how far the current slot of the clock is
  shared,     \* Redis: the counter of the current slot, for each key
  backend,    \* _backend of each process
  own,        \* the counters of the current slot in a LocalBackend
  records,    \* _records of each process and key
  limiters,   \* _per_ip of each process: the addresses, oldest first
  busy,       \* the address whose request has passed the first check
  passed,     \* history: what each source let pass, by age
  forgot,     \* history: the addresses of which a limiter was dropped
  lost        \* history: a counter went up in this slot and nobody was told

limitVars == <<option, up, phase, shared, backend, own, records, limiters, busy, passed, forgot, lost>>
forgotten == <<forgot, lost>>

Limit(k) == IF k = "global" THEN option.global ELSE option.ip
NoRequests == [a \in Age |-> 0]
SumTo(f) ==
  LET upTo[a \in Age] == IF a = 0 THEN f[0] ELSE upTo[a - 1] + f[a] IN upTo
Sum(f) == SumTo(f)[Window]
Zero == [k \in LimitKey |-> 0]

LimitTypeOK ==
  /\ option \in Options /\ up \in BOOLEAN /\ lost \in BOOLEAN
  /\ phase \in 0 .. Window - 1
  /\ shared \in [LimitKey -> Nat] /\ own \in [Process -> [LimitKey -> Nat]]
  /\ backend \in [Process -> {"none", "redis", "local"}]
  /\ records \in [Process -> [LimitKey -> [Age -> Nat]]]
  /\ limiters \in [Process -> Seq(Ip)]
  /\ busy \in [Process -> Ip \cup {None}]
  /\ passed \in [Source -> [LimitKey -> [Age -> Nat]]]
  /\ forgot \subseteq Ip

LimitInit ==
  /\ option \in Options
  /\ up \in BOOLEAN
  /\ phase \in 0 .. Window - 1
  /\ shared = Zero
  /\ backend = [w \in Process |-> "none"]
  /\ own = [w \in Process |-> Zero]
  /\ records = [w \in Process |-> [k \in LimitKey |-> NoRequests]]
  /\ limiters = [w \in Process |-> <<>>]
  /\ busy = [w \in Process |-> None]
  /\ passed = [s \in Source |-> [k \in LimitKey |-> NoRequests]]
  /\ forgot = {}
  /\ lost = FALSE

-----------------------------------------------------------------------------
(* get_shared_state: the first use decides, for good. *)
Connect(w) ==
  /\ option.redis /\ backend[w] = "none"
  /\ backend' = [backend EXCEPT ![w] = IF up THEN "redis" ELSE "local"]
  /\ UNCHANGED <<option, up, phase, shared, own, records, limiters, busy, passed, forgotten>>

Recently(s, k) == Sum(passed[s][k])

(* Counters beyond the limit, and what is beyond the bounds that are       *)
(* promised below, do the same.                                            *)
Slotted(s) == s = "redis" \/ backend[s] = "local"
Promised(s, k) == IF Slotted(s) THEN 2 * Limit(k) ELSE Limit(k)
Passes(s, k) ==
  passed' = [passed EXCEPT ![s][k][0] = IF @ > Promised(s, k) THEN @ ELSE @ + 1]
Incremented(n, k) == IF n > Limit(k) THEN n ELSE n + 1

Within(n, k) == Incremented(n, k) <= Limit(k)

(* _check_local, on the records rs.  Mutant: the oldest of a window are     *)
(* dropped too early.                                                      *)
RecentShort(f) == [f EXCEPT ![Window] = 0]
Recent(f) == f
Recorded(f, ok) == IF ok THEN [f EXCEPT ![0] = @ + 1] ELSE f

CheckLocal(w, k, rs, ok) ==
  LET f == Recent(rs[k]) IN
  /\ ok = (Sum(f) < Limit(k))
  /\ records' = [records EXCEPT ![w] = [rs EXCEPT ![k] = Recorded(f, ok)]]
  /\ IF ok THEN Passes(w, k) ELSE UNCHANGED passed

(* _check_shared.  Redis may be gone, or count and not answer. *)
CheckShared(w, k, rs, ok) ==
  \/ /\ backend[w] = "redis" /\ up
     /\ shared' = [shared EXCEPT ![k] = Incremented(@, k)]
     /\ \/ /\ ok = Within(shared[k], k)
           /\ IF ok THEN Passes("redis", k) ELSE UNCHANGED passed
           /\ records' = [records EXCEPT ![w] = rs]
           /\ UNCHANGED lost
        \/ lost' = TRUE /\ CheckLocal(w, k, rs, ok)
     /\ UNCHANGED own
  \/ /\ backend[w] = "redis" /\ ~up
     /\ CheckLocal(w, k, rs, ok)
     /\ UNCHANGED <<shared, own, lost>>
  \/ /\ backend[w] = "local"
     /\ own' = [own EXCEPT ![w][k] = Incremented(@, k)]
     /\ ok = Within(own[w][k], k)
     /\ IF ok THEN Passes(w, k) ELSE UNCHANGED passed
     /\ records' = [records EXCEPT ![w] = rs]
     /\ UNCHANGED <<shared, lost>>

Check(w, k, rs, ok) ==
  \/ option.redis /\ CheckShared(w, k, rs, ok)
  \/ ~option.redis /\ CheckLocal(w, k, rs, ok) /\ UNCHANGED <<shared, own, lost>>

(* dispatch: the limit for everybody, then that of the address; no limit is *)
(* zero.                                                                   *)
CheckGlobal(w, i) ==
  /\ busy[w] = None /\ option.global > 0
  /\ \E ok \in BOOLEAN :
       /\ Check(w, "global", records[w], ok)
       /\ busy' = [busy EXCEPT ![w] = IF ok /\ option.ip > 0 THEN i ELSE None]
  /\ UNCHANGED <<option, up, phase, backend, limiters, forgot>>

(* _prune_ip_limiters drops the older half, with their records. *)
Pruned(q) == IF Len(q) <= MaxIps THEN q ELSE SubSeq(q, Len(q) \div 2 + 1, Len(q))
Members(q) == {q[n] : n \in DOMAIN q}

CheckIp(w, i) ==
  LET left == Pruned(limiters[w])
      gone == Members(limiters[w]) \ Members(left)
      rs == [k \in LimitKey |-> IF k \in gone THEN NoRequests ELSE records[w][k]]
  IN
  /\ option.ip > 0
  /\ busy[w] = i \/ (busy[w] = None /\ option.global = 0)
  /\ limiters' = [limiters EXCEPT ![w] = IF i \in Members(left) THEN left ELSE Append(left, i)]
  /\ forgot' = forgot \cup gone
  /\ \E ok \in BOOLEAN : Check(w, i, rs, ok)
  /\ busy' = [busy EXCEPT ![w] = None]
  /\ UNCHANGED <<option, up, phase, backend>>

-----------------------------------------------------------------------------
(* Redis comes and goes; its counters survive. *)
Toggle ==
  /\ option.redis /\ up' = ~up
  /\ UNCHANGED <<option, phase, shared, backend, own, records, limiters, busy, passed, forgotten>>

(* A tick: what was counted ages; the clock may enter another slot, whose  *)
(* keys are new.                                                           *)
NextPhase(n) == IF n + 1 = Window THEN 0 ELSE n + 1
Older(f) == [a \in Age |-> IF a = 0 THEN 0 ELSE f[a - 1]]

Tick ==
  /\ phase' = NextPhase(phase)
  /\ records' = [w \in Process |-> [k \in LimitKey |-> Older(records[w][k])]]
  /\ passed' = [s \in Source |-> [k \in LimitKey |-> Older(passed[s][k])]]
  /\ IF phase' = 0 THEN shared' = Zero /\ own' = [w \in Process |-> Zero] /\ lost' = FALSE
                   ELSE UNCHANGED <<shared, own, lost>>
  /\ UNCHANGED <<option, up, backend, limiters, busy, forgot>>

LimitNext ==
  \/ \E w \in option.workers : Connect(w) \/ \E i \in option.from : CheckGlobal(w, i) \/ CheckIp(w, i)
  \/ Toggle
  \/ Tick

LimitSpec == LimitInit /\ [][LimitNext]_limitVars

-----------------------------------------------------------------------------
(* A process that counts for itself lets at most the limit pass in any     *)
(* window, wherever it begins: without Redis, and while it falls back.     *)
(* (An address whose limiter was dropped is another matter.)               *)
OwnWindow ==
  \A w \in Process, k \in LimitKey \ forgot : ~Slotted(w) => Recently(w, k) <= Limit(k)

(* Counting by slots, in Redis or in a process that found no Redis when it *)
(* started, lets at most twice the limit pass in any window, at the border *)
(* of two slots, however many processes there are.                         *)
SharedBurst ==
  \A s \in Source, k \in LimitKey : Slotted(s) => Recently(s, k) <= 2 * Limit(k)

(* A request is refused only if as many as the limit have passed in the    *)
(* window before it: what was refused itself, on whatever process, and     *)
(* what Redis was asked before it failed does not shut others out.         *)
RefusesOnlyWhenFull ==
  \A k \in LimitKey :
    /\ shared[k] >= Limit(k) /\ ~lost => Recently("redis", k) >= Limit(k)
    /\ \A w \in Process :
         Sum(records[w][k]) >= Limit(k) \/ own[w][k] >= Limit(k) => Recently(w, k) >= Limit(k)

(* The three together: no more pass than is allowed, and no fewer.         *)
LimitsHold == OwnWindow /\ SharedBurst /\ RefusesOnlyWhenFull

(* What the code does not do: an address may send at most so many requests *)
(* a minute (README; _prune_ip_limiters takes what it drops for expired).  *)
PerIpLimit ==
  \A w \in Process, i \in Ip : ~option.redis => Recently(w, i) <= option.ip
=============================================================================
