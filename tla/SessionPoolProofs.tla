-------------------------- MODULE SessionPoolProofs --------------------------
(***************************************************************************)
(* Proofs about the pool of upstream sessions, for any number of accounts, *)
(* sessions and users and any size of the pool.                            *)
(*                                                                         *)
(* The inductive invariant says who answers for a session that is open:    *)
(* while it carries the marks of the pool, the pool or the user who has    *)
(* just created it; afterwards the user who took it out and polls with it. *)
(* The order of eviction is a sequence that only recursive operators       *)
(* build; nothing here depends on which entry is evicted.                  *)
(***************************************************************************)
EXTENDS SessionPool, TLAPS

Lives == {"none", "open", "lost", "closed"}

(* The part of TypeOK the proofs need. *)
Types ==
  /\ pool \in [Key -> Session \cup {NoSession}]
  /\ live \in [Session -> Lives]
  /\ pooled \subseteq Session
  /\ madeFor \in [Session -> Key]
  /\ pc \in [User -> Statuses]
  /\ key \in [User -> Key]
  /\ holds \in [User -> Session \cup {NoSession}]

(* From its answer to its release a user has a session, otherwise none. *)
Having == Statuses \ {"start", "create", "over"}
HoldersHave == \A u \in User : pc[u] \in Having <=> holds[u] \in Session

(* Whoever has a session, and the pool, have one that was created. *)
HeldExist ==
  /\ \A k \in Key : pool[k] \in Session => live[pool[k]] # "none"
  /\ \A u \in User : holds[u] \in Session => live[holds[u]] # "none"

Open(s) == live[s] \in {"open", "lost"}

(* The user who created a session and has not pooled it yet. *)
Fresh(s) == \E u \in User : pc[u] = "insert" /\ holds[u] = s

(* The user who took a session out of the pool. *)
Polled(s) == \E u \in User : pc[u] = "poll" /\ holds[u] = s

Answered(s) ==
  Open(s) => IF s \in pooled THEN Pooled(s) \/ Fresh(s) \/ s \in swept ELSE Polled(s)

PoolInvariant ==
  /\ Types
  /\ HoldersHave
  /\ HeldExist
  /\ SessionsMatchKeys
  /\ \A s \in Session : Answered(s)

-----------------------------------------------------------------------------
LEMMA Disjoint ==
  /\ \A k \in Key : Types => (pool[k] \in Session <=> pool[k] # NoSession)
  /\ \A u \in User : Types => (holds[u] \in Session <=> holds[u] # NoSession)
BY NoSessionAssumption DEF NoSessionAssumption, Types

LEMMA GotoFacts ==
  ASSUME Types, NEW u \in User, NEW from, NEW to \in Statuses, Goto(u, from, to)
  PROVE  /\ pc' \in [User -> Statuses]
         /\ pc[u] = from /\ pc'[u] = to
         /\ \A v \in User : v # u => pc'[v] = pc[v]
BY DEF Types, Goto

(* Sessions that are closed exist. *)
LEMMA ClosedFacts ==
  ASSUME Types, NEW ss
  PROVE  /\ Closed(ss) \in [Session -> Lives]
         /\ \A s \in Session : live[s] # "none" => Closed(ss)[s] # "none"
         /\ \A s \in Session : s \in ss => Closed(ss)[s] = "closed"
         /\ \A s \in Session : s \notin ss => Closed(ss)[s] = live[s]
BY DEF Types, Closed, Lives

LEMMA WithoutFacts ==
  ASSUME Types, NEW ks, Without(ks)
  PROVE  /\ pool' \in [Key -> Session \cup {NoSession}]
         /\ \A k \in Key : k \in ks => pool'[k] = NoSession
         /\ \A k \in Key : k \notin ks => pool'[k] = pool[k]
BY DEF Types, Without

LEMMA DiscardFacts ==
  ASSUME Types, NEW ks, Discard(ks)
  PROVE  /\ pool' \in [Key -> Session \cup {NoSession}]
         /\ live' \in [Session -> Lives]
         /\ \A k \in Key : pool'[k] = pool[k] \/ (pool'[k] = NoSession /\ k \in ks)
         /\ \A s \in Session : live[s] # "none" => live'[s] # "none"
         /\ \A s \in Session : Open(s)' => Open(s)
         /\ \A k \in Key : k \in ks /\ pool[k] \in Session => live'[pool[k]] = "closed"
<1>1. Without(ks) /\ live' = Closed({pool[k] : k \in ks})
  BY DEF Discard
<1> QED
  BY <1>1, WithoutFacts, ClosedFacts DEF Open

(* A user changes its place and what it has. *)
LEMMA HoldsFacts ==
  ASSUME Types, NEW u \in User, NEW h \in Session \cup {NoSession},
         holds' = [holds EXCEPT ![u] = h]
  PROVE  /\ holds' \in [User -> Session \cup {NoSession}]
         /\ holds'[u] = h
         /\ \A v \in User : v # u => holds'[v] = holds[v]
BY DEF Types

(* Who answers for a session still does, if it stays where it was. *)
LEMMA StillAnswered ==
  ASSUME NEW s \in Session, Answered(s), pooled' = pooled, swept \subseteq swept',
         Open(s)' => Open(s),
         Open(s)' /\ Pooled(s) => Pooled(s)' \/ s \in swept',
         Open(s)' /\ Fresh(s) => Fresh(s)',
         Open(s)' /\ Polled(s) => Polled(s)'
  PROVE  Answered(s)'
BY DEF Answered

(* What a step has to show of those it moves. *)
LEMMA Keeps ==
  ASSUME PoolInvariant, Types', key' = key,
         \A s \in Session : live[s] # "none" => live'[s] # "none" /\ madeFor'[s] = madeFor[s],
         \A v \in User :
           \/ pc'[v] = pc[v] /\ holds'[v] = holds[v]
           \/ /\ pc'[v] \in Having <=> holds'[v] \in Session
              /\ holds'[v] \in Session => live'[holds'[v]] # "none" /\ madeFor'[holds'[v]] = key[v],
         \A k \in Key : pool'[k] \in Session =>
           pool'[k] = pool[k] \/ (live'[pool'[k]] # "none" /\ madeFor'[pool'[k]] = k),
         \A s \in Session : Answered(s)'
  PROVE  PoolInvariant'
<1>1. HoldersHave'
  BY DEF PoolInvariant, HoldersHave
<1>2. HeldExist'
  BY DEF PoolInvariant, HoldersHave, HeldExist
<1>3. Types' => /\ \A k \in Key : pool'[k] # NoSession => pool'[k] \in Session
                /\ \A u \in User : holds'[u] # NoSession => holds'[u] \in Session
  BY DEF Types
<1>4. ASSUME NEW k \in Key, pool'[k] # NoSession
      PROVE  madeFor'[pool'[k]] = k
  <2>1. pool'[k] \in Session
    BY <1>3, <1>4
  <2>2. CASE pool'[k] = pool[k]
    BY <1>4, <2>1, <2>2 DEF PoolInvariant, HeldExist, SessionsMatchKeys
  <2> QED
    BY <2>1, <2>2
<1>5. ASSUME NEW u \in User, holds'[u] # NoSession
      PROVE  madeFor'[holds'[u]] = key'[u]
  <2>1. holds'[u] \in Session
    BY <1>3, <1>5
  <2>2. CASE holds'[u] = holds[u]
    BY <1>5, <2>1, <2>2 DEF PoolInvariant, HeldExist, SessionsMatchKeys
  <2> QED
    BY <2>1, <2>2
<1>6. SessionsMatchKeys'
  BY <1>4, <1>5 DEF SessionsMatchKeys
<1> QED
  BY <1>1, <1>2, <1>6 DEF PoolInvariant

(* A session that leaves the pool is closed. *)
LEMMA DiscardAnswers ==
  ASSUME PoolInvariant, NEW ks, Discard(ks), UNCHANGED <<pooled, swept>>,
         \A s \in Session : Fresh(s) => Fresh(s)',
         \A s \in Session : Polled(s) => Polled(s)'
  PROVE  \A s \in Session : Answered(s)'
<1> SUFFICES ASSUME NEW s \in Session
             PROVE  Answered(s)'
  OBVIOUS
<1>1. Open(s)' => Open(s)
  BY DiscardFacts DEF PoolInvariant
<1>2. Open(s)' /\ Pooled(s) => Pooled(s)'
  <2> SUFFICES ASSUME Open(s)', NEW k \in Key, pool[k] = s
               PROVE  pool'[k] = s
    BY DEF Pooled
  <2>1. live'[s] # "closed"
    BY DEF Open
  <2> QED
    BY <2>1, DiscardFacts DEF PoolInvariant
<1> QED
  BY <1>1, <1>2, StillAnswered DEF PoolInvariant

-----------------------------------------------------------------------------
LEMMA InitPool == Init => PoolInvariant
<1> SUFFICES ASSUME Init
             PROVE  PoolInvariant
  OBVIOUS
<1>1. Types
  BY DEF Init, Types, Lives, Statuses
<1>2. HoldersHave
  BY NoSessionAssumption DEF NoSessionAssumption, Init, HoldersHave, Having, Statuses
<1>3. HeldExist /\ SessionsMatchKeys
  BY NoSessionAssumption DEF NoSessionAssumption, Init, HeldExist, SessionsMatchKeys
<1>4. \A s \in Session : Answered(s)
  BY DEF Init, Answered, Open
<1> QED
  BY <1>1, <1>2, <1>3, <1>4 DEF PoolInvariant

(* A step that only moves its user between places where it has, or has     *)
(* not, a session, away from the two that answer for one.                  *)
LEMMA MoveKeeps ==
  ASSUME PoolInvariant, NEW u \in User, NEW from, NEW to \in Statuses, Goto(u, from, to),
         from \notin {"insert", "poll"},
         from \in Having <=> to \in Having,
         UNCHANGED <<pool, sessionVars, key, holds, swept>>
  PROVE  PoolInvariant'
<1>0. Types /\ UNCHANGED <<live, pooled, madeFor>>
  BY DEF PoolInvariant, sessionVars
<1>1. /\ pc' \in [User -> Statuses] /\ pc[u] = from /\ pc'[u] = to
      /\ \A v \in User : v # u => pc'[v] = pc[v]
  BY <1>0, GotoFacts
<1>2. Types'
  BY <1>0, <1>1 DEF Types
<1>3. ASSUME NEW v \in User
      PROVE  /\ pc'[v] \in Having <=> holds'[v] \in Session
             /\ holds'[v] \in Session => live'[holds'[v]] # "none" /\ madeFor'[holds'[v]] = key[v]
  BY <1>0, <1>1, NoSessionAssumption
     DEF PoolInvariant, HoldersHave, HeldExist, SessionsMatchKeys, NoSessionAssumption
<1>4. ASSUME NEW s \in Session
      PROVE  Answered(s)'
  <2>1. Open(s)' = Open(s) /\ Pooled(s)' = Pooled(s)
    BY <1>0 DEF Open, Pooled
  <2>2. (Fresh(s) => Fresh(s)') /\ (Polled(s) => Polled(s)')
    BY <1>1 DEF Fresh, Polled
  <2> QED
    BY <1>0, <2>1, <2>2, StillAnswered DEF PoolInvariant
<1> QED
  BY <1>0, <1>2, <1>3, <1>4, Keeps

LEMMA FindKeeps ==
  ASSUME PoolInvariant, NEW u \in User, Find(u)
  PROVE  PoolInvariant'
<1> DEFINE k == key[u]
           found == Found(k)
<1>0. /\ Types /\ k \in Key /\ found = pool[k] /\ pc[u] = "start"
      /\ UNCHANGED <<pooled, madeFor, key, swept>>
  BY DEF PoolInvariant, Types, Find, Goto, Found, Unchanged, cleanerVars
<1>1. CASE /\ Goto(u, "start", "create")
           /\ UNCHANGED holds
           /\ (UNCHANGED <<pool, live>> \/ Discard({k}))
  <2>1. /\ pc' \in [User -> Statuses] /\ pc'[u] = "create"
        /\ \A v \in User : v # u => pc'[v] = pc[v]
    BY <1>0, <1>1, GotoFacts DEF Statuses
  <2>2. /\ pool' \in [Key -> Session \cup {NoSession}] /\ live' \in [Session -> Lives]
        /\ \A l \in Key : pool'[l] = pool[l] \/ pool'[l] = NoSession
        /\ \A s \in Session : live[s] # "none" => live'[s] # "none"
    BY <1>0, <1>1, DiscardFacts DEF Types
  <2>3. Types'
    BY <1>0, <1>1, <2>1, <2>2 DEF Types
  <2>4. \A s \in Session : (Fresh(s) => Fresh(s)') /\ (Polled(s) => Polled(s)')
    BY <1>0, <1>1, <2>1 DEF Fresh, Polled
  <2>5. \A s \in Session : Answered(s)'
    <3>1. CASE Discard({k})
      BY <1>0, <2>4, <3>1, DiscardAnswers
    <3>2. CASE UNCHANGED <<pool, live>>
      BY <1>0, <2>4, <3>2, StillAnswered DEF PoolInvariant, Open, Pooled
    <3> QED
      BY <1>1, <3>1, <3>2
  <2>6. ASSUME NEW v \in User, v = u
        PROVE  holds'[v] \notin Session /\ pc'[v] \notin Having
    BY <1>0, <1>1, <2>1, <2>6 DEF PoolInvariant, HoldersHave, Having
  <2> QED
    BY <1>0, <1>1, <2>1, <2>2, <2>3, <2>5, <2>6, NoSessionAssumption, Keeps DEF NoSessionAssumption
<1>2. CASE /\ found # NoSession
           /\ Goto(u, "start", "check")
           /\ holds' = [holds EXCEPT ![u] = found]
           /\ UNCHANGED <<pool, live>>
  <2>1. found \in Session /\ live[found] # "none" /\ madeFor[found] = k
    BY <1>0, <1>2 DEF PoolInvariant, Types, HeldExist, SessionsMatchKeys
  <2>2. /\ pc' \in [User -> Statuses] /\ pc'[u] = "check"
        /\ \A v \in User : v # u => pc'[v] = pc[v]
    BY <1>0, <1>2, GotoFacts DEF Statuses
  <2>3. /\ holds' \in [User -> Session \cup {NoSession}] /\ holds'[u] = found
        /\ \A v \in User : v # u => holds'[v] = holds[v]
    BY <1>0, <1>2, <2>1, HoldsFacts
  <2>4. Types'
    BY <1>0, <1>2, <2>2, <2>3 DEF Types
  <2>5. \A s \in Session : (Fresh(s) => Fresh(s)') /\ (Polled(s) => Polled(s)')
    BY <1>0, <2>2, <2>3 DEF Fresh, Polled
  <2>6. \A s \in Session : Answered(s)'
    BY <1>0, <1>2, <2>5, StillAnswered DEF PoolInvariant, Open, Pooled
  <2>7. pc'[u] \in Having
    BY <2>2 DEF Having, Statuses
  <2> QED
    BY <1>0, <1>2, <2>1, <2>2, <2>3, <2>4, <2>6, <2>7, Keeps
<1> QED
  BY <1>1, <1>2 DEF Find, poolVars

LEMMA MovesKeep ==
  ASSUME PoolInvariant, NEW u \in User, Check(u) \/ Mark(u) \/ Steal(u)
  PROVE  PoolInvariant'
<1>1. UNCHANGED <<pool, sessionVars, key, holds, swept>>
  BY DEF Check, Mark, Steal, poolVars, Unchanged, sessionVars, cleanerVars
<1>2. \E from \in {"check", "mark", "use"}, to \in {"mark", "bad", "use", "shrink", "remove"} :
        Goto(u, from, to)
  BY DEF Check, Mark, Steal
<1> QED
  BY <1>1, <1>2, MoveKeeps DEF Having, Statuses

(* A bad session is given up; if it is pooled still, it is discarded. *)
LEMMA RejectKeeps ==
  ASSUME PoolInvariant, NEW u \in User, Reject(u)
  PROVE  PoolInvariant'
<1>0. /\ Types /\ Goto(u, "bad", "create") /\ holds' = [holds EXCEPT ![u] = NoSession]
      /\ Discard({key[u]}) \/ UNCHANGED <<pool, live>>
      /\ UNCHANGED <<pooled, madeFor, key, swept>>
  BY DEF PoolInvariant, Reject, Unchanged, cleanerVars, poolVars
<1>1. /\ pc' \in [User -> Statuses] /\ pc[u] = "bad" /\ pc'[u] = "create"
      /\ \A v \in User : v # u => pc'[v] = pc[v]
  BY <1>0, GotoFacts DEF Statuses
<1>2. /\ holds' \in [User -> Session \cup {NoSession}] /\ holds'[u] = NoSession
      /\ \A v \in User : v # u => holds'[v] = holds[v]
  BY <1>0, HoldsFacts
<1>3. /\ pool' \in [Key -> Session \cup {NoSession}] /\ live' \in [Session -> Lives]
      /\ \A l \in Key : pool'[l] = pool[l] \/ pool'[l] = NoSession
      /\ \A s \in Session : live[s] # "none" => live'[s] # "none"
  BY <1>0, DiscardFacts DEF Types
<1>4. Types'
  BY <1>0, <1>1, <1>2, <1>3 DEF Types
<1>5. \A s \in Session : (Fresh(s) => Fresh(s)') /\ (Polled(s) => Polled(s)')
  BY <1>0, <1>1, <1>2 DEF Fresh, Polled
<1>6. \A s \in Session : Answered(s)'
  <2>1. CASE Discard({key[u]})
    BY <1>0, <1>5, <2>1, DiscardAnswers
  <2>2. CASE UNCHANGED <<pool, live>>
    BY <1>0, <1>5, <2>2, StillAnswered DEF PoolInvariant, Open, Pooled
  <2> QED
    BY <1>0, <2>1, <2>2
<1>7. pc'[u] \notin Having /\ NoSession \notin Session
  BY <1>1, NoSessionAssumption DEF Having, NoSessionAssumption
<1> QED
  BY <1>0, <1>1, <1>2, <1>3, <1>4, <1>6, <1>7, Keeps

(* The new session is its creator's to answer for. *)
LEMMA CreateKeeps ==
  ASSUME PoolInvariant, NEW u \in User, Create(u)
  PROVE  PoolInvariant'
<1>1. CASE Goto(u, "create", "over") /\ UNCHANGED <<sessionVars, holds>>
  <2>1. UNCHANGED <<pool, sessionVars, key, holds, swept>>
    BY <1>1 DEF Create, poolVars, cleanerVars
  <2> QED
    BY <1>1, <2>1, MoveKeeps DEF Having, Statuses
<1>2. ASSUME NEW s \in Session, live[s] = "none", Goto(u, "create", "insert"),
             live' = [live EXCEPT ![s] = "open"],
             pooled' = pooled \cup {s},
             madeFor' = [madeFor EXCEPT ![s] = key[u]],
             holds' = [holds EXCEPT ![u] = s]
      PROVE  PoolInvariant'
  <2>0. Types /\ UNCHANGED <<pool, key, swept>>
    BY DEF PoolInvariant, Create, poolVars, cleanerVars
  <2>1. /\ pc' \in [User -> Statuses] /\ pc[u] = "create" /\ pc'[u] = "insert"
        /\ \A v \in User : v # u => pc'[v] = pc[v]
    BY <1>2, <2>0, GotoFacts DEF Statuses
  <2>2. /\ holds' \in [User -> Session \cup {NoSession}] /\ holds'[u] = s
        /\ \A v \in User : v # u => holds'[v] = holds[v]
    BY <1>2, <2>0, HoldsFacts
  <2>3. /\ live' \in [Session -> Lives] /\ live'[s] = "open"
        /\ \A t \in Session : t # s => live'[t] = live[t]
        /\ madeFor' \in [Session -> Key] /\ madeFor'[s] = key[u]
        /\ \A t \in Session : t # s => madeFor'[t] = madeFor[t]
    BY <1>2, <2>0 DEF Types, Lives
  <2>4. Types'
    BY <1>2, <2>0, <2>1, <2>2, <2>3 DEF Types
  <2>5. ASSUME NEW t \in Session
        PROVE  Answered(t)'
    <3>1. CASE t = s
      BY <1>2, <2>1, <2>2, <3>1 DEF Answered, Fresh
    <3>2. CASE t # s
      <4>1. (Fresh(t) => Fresh(t)') /\ (Polled(t) => Polled(t)') /\ Pooled(t)' = Pooled(t)
        BY <2>0, <2>1, <2>2 DEF Fresh, Polled, Pooled
      <4>2. Answered(t) /\ Open(t)' = Open(t) /\ (t \in pooled' <=> t \in pooled)
        BY <1>2, <2>3, <3>2 DEF PoolInvariant, Open
      <4> QED
        BY <2>0, <4>1, <4>2 DEF Answered
    <3> QED
      BY <3>1, <3>2
  <2>6. pc'[u] \in Having
    BY <2>1 DEF Having, Statuses
  <2>7. \A t \in Session : live[t] # "none" => live'[t] # "none" /\ madeFor'[t] = madeFor[t]
    BY <1>2, <2>3
  <2>8. \A v \in User :
          \/ pc'[v] = pc[v] /\ holds'[v] = holds[v]
          \/ /\ pc'[v] \in Having <=> holds'[v] \in Session
             /\ holds'[v] \in Session => live'[holds'[v]] # "none" /\ madeFor'[holds'[v]] = key[v]
    BY <2>1, <2>2, <2>3, <2>6
  <2> QED
    BY <2>0, <2>4, <2>5, <2>7, <2>8, Keeps
<1> QED
  BY <1>1, <1>2 DEF Create

(* The new session is pooled or, like the evicted one, closed. *)
LEMMA InsertKeeps ==
  ASSUME PoolInvariant, NEW u \in User, Insert(u)
  PROVE  PoolInvariant'
<1> DEFINE k == key[u]
           s == holds[u]
           evicted == IF Len(order) >= limit THEN {Head(order)} ELSE {}
           closing == {pool[e] : e \in evicted}
<1>0. Types /\ UNCHANGED <<pooled, madeFor, key, swept>> /\ k \in Key /\ pc[u] = "insert"
  BY DEF PoolInvariant, Types, Insert, Goto, cleanerVars
<1>1. s \in Session /\ live[s] # "none" /\ madeFor[s] = k
  BY <1>0, NoSessionAssumption DEF PoolInvariant, HoldersHave, HeldExist, SessionsMatchKeys,
     Having, Statuses, NoSessionAssumption
<1>2. \/ /\ pool[k] # NoSession /\ k \notin evicted
         /\ Goto(u, "insert", "use")
         /\ pool' = [e \in Key |-> IF e \in evicted THEN NoSession ELSE pool[e]]
         /\ live' = Closed(closing \cup {s})
         /\ holds' = [holds EXCEPT ![u] = pool[k]]
      \/ /\ pool[k] = NoSession \/ k \in evicted
         /\ Goto(u, "insert", "mark")
         /\ pool' = [e \in Key |-> IF e = k THEN s ELSE IF e \in evicted THEN NoSession ELSE pool[e]]
         /\ live' = Closed(closing)
         /\ UNCHANGED holds
  BY DEF Insert
<1> HIDE DEF evicted
<1>3. CASE /\ pool[k] # NoSession /\ k \notin evicted
           /\ Goto(u, "insert", "use")
           /\ pool' = [e \in Key |-> IF e \in evicted THEN NoSession ELSE pool[e]]
           /\ live' = Closed(closing \cup {s})
           /\ holds' = [holds EXCEPT ![u] = pool[k]]
  <2>1. pool[k] \in Session /\ live[pool[k]] # "none" /\ madeFor[pool[k]] = k
    BY <1>0, <1>3 DEF PoolInvariant, Types, HeldExist, SessionsMatchKeys
  <2>2. /\ pc' \in [User -> Statuses] /\ pc'[u] = "use"
        /\ \A v \in User : v # u => pc'[v] = pc[v]
    BY <1>0, <1>3, GotoFacts DEF Statuses
  <2>3. /\ holds' \in [User -> Session \cup {NoSession}] /\ holds'[u] = pool[k]
        /\ \A v \in User : v # u => holds'[v] = holds[v]
    BY <1>0, <1>3, <2>1, HoldsFacts
  <2>4. /\ live' \in [Session -> Lives] /\ live'[s] = "closed"
        /\ \A t \in Session : live[t] # "none" => live'[t] # "none"
        /\ \A t \in Session : t \in closing => live'[t] = "closed"
        /\ \A t \in Session : live'[t] = live[t] \/ live'[t] = "closed"
    BY <1>0, <1>1, <1>3, ClosedFacts
  <2>5. /\ pool' \in [Key -> Session \cup {NoSession}]
        /\ \A e \in Key : pool'[e] = IF e \in evicted THEN NoSession ELSE pool[e]
    BY <1>0, <1>3 DEF Types
  <2>6. Types'
    BY <1>0, <2>2, <2>3, <2>4, <2>5 DEF Types
  <2>7. ASSUME NEW t \in Session
        PROVE  Answered(t)'
    <3>1. Open(t)' => Open(t) /\ t # s /\ t \notin closing
      BY <2>4 DEF Open
    <3>2. Open(t)' /\ Pooled(t) => Pooled(t)'
      BY <2>5, <3>1 DEF Pooled
    <3>3. Open(t)' /\ Fresh(t) => Fresh(t)'
      BY <2>2, <2>3, <3>1 DEF Fresh
    <3>4. Polled(t) => Polled(t)'
      BY <1>0, <2>2, <2>3 DEF Polled
    <3> QED
      BY <1>0, <3>1, <3>2, <3>3, <3>4, StillAnswered DEF PoolInvariant
  <2>8. pc'[u] \in Having
    BY <2>2 DEF Having, Statuses
  <2>9. \A v \in User :
          \/ pc'[v] = pc[v] /\ holds'[v] = holds[v]
          \/ /\ pc'[v] \in Having <=> holds'[v] \in Session
             /\ holds'[v] \in Session => live'[holds'[v]] # "none" /\ madeFor'[holds'[v]] = key[v]
    BY <1>0, <2>1, <2>2, <2>3, <2>4, <2>8
  <2>10. \A e \in Key : pool'[e] \in Session => pool'[e] = pool[e]
    BY <2>5, NoSessionAssumption DEF NoSessionAssumption
  <2> QED
    BY <1>0, <2>4, <2>6, <2>7, <2>9, <2>10, Keeps
<1>4. CASE /\ pool[k] = NoSession \/ k \in evicted
           /\ Goto(u, "insert", "mark")
           /\ pool' = [e \in Key |-> IF e = k THEN s ELSE IF e \in evicted THEN NoSession ELSE pool[e]]
           /\ live' = Closed(closing)
           /\ UNCHANGED holds
  <2>2. /\ pc' \in [User -> Statuses] /\ pc'[u] = "mark"
        /\ \A v \in User : v # u => pc'[v] = pc[v]
    BY <1>0, <1>4, GotoFacts DEF Statuses
  <2>4. /\ live' \in [Session -> Lives]
        /\ \A t \in Session : live[t] # "none" => live'[t] # "none"
        /\ \A t \in Session : t \in closing => live'[t] = "closed"
        /\ \A t \in Session : live'[t] = live[t] \/ live'[t] = "closed"
    BY <1>0, <1>4, ClosedFacts
  <2>5. /\ pool' \in [Key -> Session \cup {NoSession}] /\ pool'[k] = s
        /\ \A e \in Key : e # k => pool'[e] = IF e \in evicted THEN NoSession ELSE pool[e]
    BY <1>0, <1>1, <1>4 DEF Types
  <2>6. Types'
    BY <1>0, <1>4, <2>2, <2>4, <2>5 DEF Types
  <2>7. ASSUME NEW t \in Session
        PROVE  Answered(t)'
    <3>1. Open(t)' => Open(t) /\ t \notin closing
      BY <2>4 DEF Open
    <3>2. t = s => Pooled(t)'
      BY <1>0, <2>5 DEF Pooled
    <3>3. Open(t)' /\ Pooled(t) => Pooled(t)'
      <4> SUFFICES ASSUME Open(t)', NEW e \in Key, pool[e] = t
                   PROVE  pool'[e] = t
        BY DEF Pooled
      <4>1. e \notin evicted
        BY <3>1
      <4>2. e # k
        BY <1>4, <4>1, NoSessionAssumption DEF NoSessionAssumption
      <4> QED
        BY <2>5, <4>1, <4>2
    <3>4. Fresh(t) => Fresh(t)' \/ t = s
      BY <1>4, <2>2 DEF Fresh
    <3>5. Polled(t) => Polled(t)'
      BY <1>0, <1>4, <2>2 DEF Polled
    <3> QED
      BY <1>0, <3>1, <3>2, <3>3, <3>4, <3>5 DEF PoolInvariant, Answered
  <2>8. pc'[u] \in Having
    BY <2>2 DEF Having, Statuses
  <2>9. \A v \in User :
          \/ pc'[v] = pc[v] /\ holds'[v] = holds[v]
          \/ /\ pc'[v] \in Having <=> holds'[v] \in Session
             /\ holds'[v] \in Session => live'[holds'[v]] # "none" /\ madeFor'[holds'[v]] = key[v]
    BY <1>0, <1>1, <1>4, <2>2, <2>4, <2>8
  <2>10. \A e \in Key : pool'[e] \in Session =>
           pool'[e] = pool[e] \/ (live'[pool'[e]] # "none" /\ madeFor'[pool'[e]] = e)
    BY <1>0, <1>1, <2>4, <2>5, NoSessionAssumption DEF NoSessionAssumption
  <2> QED
    BY <1>0, <2>4, <2>6, <2>7, <2>9, <2>10, Keeps
<1> QED
  BY <1>2, <1>3, <1>4

LEMMA ShrinkKeeps ==
  ASSUME PoolInvariant, NEW u \in User, Shrink(u)
  PROVE  PoolInvariant'
<1>0. /\ Types /\ Goto(u, "shrink", "remove") /\ UNCHANGED <<pooled, madeFor, key, holds, swept>>
      /\ UNCHANGED <<pool, live>> \/ \E ks : Discard(ks)
  BY DEF PoolInvariant, Shrink, Unchanged, cleanerVars, poolVars
<1>1. CASE UNCHANGED <<pool, live>>
  BY <1>0, <1>1, MoveKeeps DEF Having, Statuses, sessionVars
<1>2. ASSUME NEW ks, Discard(ks)
      PROVE  PoolInvariant'
  <2>1. /\ pc' \in [User -> Statuses] /\ pc[u] = "shrink" /\ pc'[u] = "remove"
        /\ \A v \in User : v # u => pc'[v] = pc[v]
    BY <1>0, GotoFacts DEF Statuses
  <2>2. Types'
    BY <1>0, <1>2, <2>1, DiscardFacts DEF Types
  <2>3. \A s \in Session : (Fresh(s) => Fresh(s)') /\ (Polled(s) => Polled(s)')
    BY <1>0, <2>1 DEF Fresh, Polled
  <2>4. \A s \in Session : Answered(s)'
    BY <1>0, <1>2, <2>3, DiscardAnswers
  <2>5. /\ \A k \in Key : pool'[k] \in Session => pool'[k] = pool[k]
        /\ \A s \in Session : live[s] # "none" => live'[s] # "none"
    BY <1>0, <1>2, DiscardFacts, NoSessionAssumption DEF NoSessionAssumption
  <2>6. /\ pc'[u] \in Having /\ holds[u] \in Session
        /\ live[holds[u]] # "none" /\ madeFor[holds[u]] = key[u]
    BY <2>1, NoSessionAssumption DEF PoolInvariant, HoldersHave, HeldExist, SessionsMatchKeys,
       Having, Statuses, NoSessionAssumption
  <2> QED
    BY <1>0, <2>1, <2>2, <2>4, <2>5, <2>6, Keeps
<1> QED
  BY <1>0, <1>1, <1>2

(* Whoever takes a session out of the pool answers for it. *)
LEMMA TakeOutKeeps ==
  ASSUME PoolInvariant, NEW u \in User, TakeOut(u)
  PROVE  PoolInvariant'
<1> DEFINE s == holds[u]
           ks == {k \in Key : pool[k] = s}
<1>0. /\ Types /\ Goto(u, "remove", "poll") /\ Without(ks)
      /\ pooled' = IF ks = {} THEN pooled ELSE pooled \ {s}
      /\ UNCHANGED <<live, madeFor, key, holds, swept>>
  BY DEF PoolInvariant, TakeOut, cleanerVars
<1>1. /\ pc' \in [User -> Statuses] /\ pc[u] = "remove" /\ pc'[u] = "poll"
      /\ \A v \in User : v # u => pc'[v] = pc[v]
  BY <1>0, GotoFacts DEF Statuses
<1>2. /\ pool' \in [Key -> Session \cup {NoSession}]
      /\ \A k \in Key : pool[k] = s => pool'[k] = NoSession
      /\ \A k \in Key : pool[k] # s => pool'[k] = pool[k]
  BY <1>0, WithoutFacts
<1>3. Types'
  BY <1>0, <1>1, <1>2 DEF Types
<1>4. ASSUME NEW t \in Session
      PROVE  Answered(t)'
  <2>1. Answered(t) /\ (Fresh(t) => Fresh(t)') /\ (Polled(t) => Polled(t)') /\ Open(t)' = Open(t)
    BY <1>0, <1>1 DEF PoolInvariant, Fresh, Polled, Open
  <2>2. t = s => Polled(t)'
    BY <1>0, <1>1 DEF Polled
  <2>3. t # s => (Pooled(t) => Pooled(t)') /\ (t \in pooled' <=> t \in pooled)
    BY <1>0, <1>2 DEF Pooled
  <2>4. ks = {} => ~Pooled(s) /\ pooled' = pooled
    BY <1>0 DEF Pooled
  <2>5. ks # {} => s \notin pooled'
    BY <1>0
  <2> QED
    BY <1>0, <2>1, <2>2, <2>3, <2>4, <2>5 DEF Answered
<1>5. pc'[u] \in Having /\ s \in Session /\ live[s] # "none" /\ madeFor[s] = key[u]
  BY <1>1, NoSessionAssumption DEF PoolInvariant, HoldersHave, HeldExist, SessionsMatchKeys,
     Having, Statuses, NoSessionAssumption
<1>6. \A k \in Key : pool'[k] \in Session => pool'[k] = pool[k]
  BY <1>2, NoSessionAssumption DEF NoSessionAssumption
<1> QED
  BY <1>0, <1>1, <1>3, <1>4, <1>5, <1>6, Keeps

(* Who polled closes the session; who gives back one with marks leaves it. *)
LEMMA FinishKeeps ==
  ASSUME PoolInvariant, NEW u \in User, Finish(u)
  PROVE  PoolInvariant'
<1> DEFINE s == holds[u]
<1>0. /\ Types /\ UNCHANGED <<pool, pooled, madeFor, key, swept>>
      /\ pc[u] \in {"use", "poll"}
  BY DEF PoolInvariant, Finish, Goto, Unchanged, poolVars, cleanerVars
<1>1. s \in Session /\ live[s] # "none" /\ madeFor[s] = key[u]
  BY <1>0, NoSessionAssumption DEF PoolInvariant, HoldersHave, HeldExist, SessionsMatchKeys,
     Having, Statuses, NoSessionAssumption
<1>2. CASE s \in pooled
  <2>1. UNCHANGED <<live, holds>> /\ \E from \in {"use", "poll"} : Goto(u, from, "release")
    BY <1>2 DEF Finish
  <2>2. /\ pc' \in [User -> Statuses] /\ pc'[u] = "release"
        /\ \A v \in User : v # u => pc'[v] = pc[v]
    BY <1>0, <2>1, GotoFacts DEF Statuses
  <2>3. Types'
    BY <1>0, <2>1, <2>2 DEF Types
  <2>4. ASSUME NEW t \in Session
        PROVE  Answered(t)'
    <3>1. Answered(t) /\ Open(t)' = Open(t) /\ Pooled(t)' = Pooled(t)
      BY <1>0, <2>1 DEF PoolInvariant, Open, Pooled
    <3>2. Fresh(t) => Fresh(t)'
      BY <1>0, <2>1, <2>2 DEF Fresh
    <3>3. t # s => (Polled(t) => Polled(t)')
      BY <2>1, <2>2 DEF Polled
    <3> QED
      BY <1>0, <1>2, <3>1, <3>2, <3>3 DEF Answered
  <2>5. pc'[u] \in Having
    BY <2>2 DEF Having, Statuses
  <2> QED
    BY <1>0, <1>1, <2>1, <2>2, <2>3, <2>4, <2>5, Keeps
<1>3. CASE s \notin pooled
  <2>1. /\ live' = Closed({s}) /\ holds' = [holds EXCEPT ![u] = NoSession]
        /\ \E from \in {"use", "poll"} : Goto(u, from, "over")
    BY <1>3 DEF Finish
  <2>2. /\ pc' \in [User -> Statuses] /\ pc'[u] = "over"
        /\ \A v \in User : v # u => pc'[v] = pc[v]
    BY <1>0, <2>1, GotoFacts DEF Statuses
  <2>3. /\ holds' \in [User -> Session \cup {NoSession}] /\ holds'[u] = NoSession
        /\ \A v \in User : v # u => holds'[v] = holds[v]
    BY <1>0, <2>1, HoldsFacts
  <2>4. /\ live' \in [Session -> Lives] /\ live'[s] = "closed"
        /\ \A t \in Session : live[t] # "none" => live'[t] # "none"
        /\ \A t \in Session : t # s => live'[t] = live[t]
    BY <1>0, <1>1, <2>1, ClosedFacts
  <2>5. Types'
    BY <1>0, <2>2, <2>3, <2>4 DEF Types
  <2>6. ASSUME NEW t \in Session
        PROVE  Answered(t)'
    <3>1. CASE t = s
      BY <2>4, <3>1 DEF Answered, Open
    <3>2. CASE t # s
      BY <1>0, <2>2, <2>3, <2>4, <3>2, StillAnswered
         DEF PoolInvariant, Open, Pooled, Fresh, Polled
    <3> QED
      BY <3>1, <3>2
  <2>7. pc'[u] \notin Having /\ NoSession \notin Session
    BY <2>2, NoSessionAssumption DEF Having, NoSessionAssumption
  <2> QED
    BY <1>0, <2>2, <2>3, <2>4, <2>5, <2>6, <2>7, Keeps
<1> QED
  BY <1>2, <1>3

LEMMA ReadKeyKeeps ==
  ASSUME PoolInvariant, NEW u \in User, ReadKey(u)
  PROVE  PoolInvariant'
<1>0. Types /\ UNCHANGED <<pool, sessionVars, key, swept>>
  BY DEF PoolInvariant, ReadKey, Unchanged, poolVars, sessionVars, cleanerVars
<1>1. CASE Goto(u, "release", "repool") /\ UNCHANGED holds
  BY <1>0, <1>1, MoveKeeps DEF Having, Statuses
<1>2. CASE Goto(u, "release", "over") /\ holds' = [holds EXCEPT ![u] = NoSession]
  <2>1. /\ pc' \in [User -> Statuses] /\ pc[u] = "release" /\ pc'[u] = "over"
        /\ \A v \in User : v # u => pc'[v] = pc[v]
    BY <1>0, <1>2, GotoFacts DEF Statuses
  <2>2. /\ holds' \in [User -> Session \cup {NoSession}] /\ holds'[u] = NoSession
        /\ \A v \in User : v # u => holds'[v] = holds[v]
    BY <1>0, <1>2, HoldsFacts
  <2>3. Types'
    BY <1>0, <2>1, <2>2 DEF Types, sessionVars
  <2>4. \A s \in Session : (Fresh(s) => Fresh(s)') /\ (Polled(s) => Polled(s)')
    BY <1>0, <2>1, <2>2 DEF Fresh, Polled
  <2>5. \A s \in Session : Answered(s)'
    BY <1>0, <2>4, StillAnswered DEF PoolInvariant, Open, Pooled, sessionVars
  <2>6. pc'[u] \notin Having /\ NoSession \notin Session
    BY <2>1, NoSessionAssumption DEF Having, NoSessionAssumption
  <2> QED
    BY <1>0, <2>1, <2>2, <2>3, <2>5, <2>6, Keeps DEF sessionVars
<1> QED
  BY <1>1, <1>2 DEF ReadKey

(* A session returns to the place it was made for, if that is vacant. *)
LEMMA RepoolKeeps ==
  ASSUME PoolInvariant, NEW u \in User, Repool(u)
  PROVE  PoolInvariant'
<1> DEFINE s == holds[u]
           k == madeFor[s]
<1>0. /\ Types /\ UNCHANGED <<live, pooled, madeFor, key, swept>>
      /\ Goto(u, "repool", "over") /\ holds' = [holds EXCEPT ![u] = NoSession]
      /\ \/ pool[k] = NoSession /\ pool' = [pool EXCEPT ![k] = s]
         \/ UNCHANGED pool
  BY DEF PoolInvariant, Repool, Vacant, With, Unchanged, cleanerVars
<1>1. /\ pc' \in [User -> Statuses] /\ pc[u] = "repool" /\ pc'[u] = "over"
      /\ \A v \in User : v # u => pc'[v] = pc[v]
  BY <1>0, GotoFacts DEF Statuses
<1>2. /\ holds' \in [User -> Session \cup {NoSession}] /\ holds'[u] = NoSession
      /\ \A v \in User : v # u => holds'[v] = holds[v]
  BY <1>0, HoldsFacts
<1>3. s \in Session /\ live[s] # "none" /\ k \in Key
  BY <1>0, <1>1, NoSessionAssumption DEF PoolInvariant, HoldersHave, HeldExist, Types,
     Having, Statuses, NoSessionAssumption
<1>4. /\ pool' \in [Key -> Session \cup {NoSession}]
      /\ \A e \in Key : \/ pool'[e] = pool[e]
                        \/ e = k /\ pool'[e] = s /\ pool[e] = NoSession
  BY <1>0, <1>3 DEF Types
<1>5. Types'
  BY <1>0, <1>1, <1>2, <1>4 DEF Types
<1>6. ASSUME NEW t \in Session
      PROVE  Answered(t)'
  <2>1. (Fresh(t) => Fresh(t)') /\ (Polled(t) => Polled(t)') /\ Open(t)' = Open(t)
    BY <1>0, <1>1, <1>2 DEF Fresh, Polled, Open
  <2>2. Pooled(t) => Pooled(t)'
    BY <1>4, NoSessionAssumption DEF Pooled, NoSessionAssumption
  <2> QED
    BY <1>0, <2>1, <2>2, StillAnswered DEF PoolInvariant
<1>7. pc'[u] \notin Having /\ NoSession \notin Session
  BY <1>1, NoSessionAssumption DEF Having, NoSessionAssumption
<1>8. \A e \in Key : pool'[e] \in Session =>
        pool'[e] = pool[e] \/ (live'[pool'[e]] # "none" /\ madeFor'[pool'[e]] = e)
  BY <1>0, <1>3, <1>4
<1> QED
  BY <1>0, <1>1, <1>2, <1>5, <1>6, <1>7, <1>8, Keeps

(* What cleanup_stale drops unseen it leaves open: it is in swept. *)
LEMMA DropIdleKeeps ==
  ASSUME PoolInvariant, DropIdle
  PROVE  PoolInvariant'
<1> DEFINE k == cleaner.key
<1>0. /\ Types /\ Without({k})
      /\ live' = IF pool[k] = NoSession THEN live ELSE Closed({cleaner.session})
      /\ swept' = swept \cup ({pool[k]} \ {NoSession, cleaner.session})
      /\ UNCHANGED <<pooled, madeFor, pc, key, holds>>
  BY DEF PoolInvariant, DropIdle, userVars
<1>1. /\ pool' \in [Key -> Session \cup {NoSession}]
      /\ \A e \in Key : pool'[e] = pool[e] \/ (e = k /\ pool'[e] = NoSession)
  BY <1>0, WithoutFacts
<1>2. /\ live' \in [Session -> Lives]
      /\ \A t \in Session : live[t] # "none" => live'[t] # "none"
      /\ \A t \in Session : live'[t] = live[t] \/ live'[t] = "closed"
      /\ \A t \in Session : t = cleaner.session /\ pool[k] # NoSession => live'[t] = "closed"
  BY <1>0, ClosedFacts DEF Types
<1>3. Types'
  BY <1>0, <1>1, <1>2 DEF Types
<1>4. ASSUME NEW t \in Session
      PROVE  Answered(t)'
  <2>1. /\ Fresh(t)' = Fresh(t) /\ Polled(t)' = Polled(t)
        /\ Open(t)' => Open(t)
        /\ swept \subseteq swept'
    BY <1>0, <1>2 DEF Fresh, Polled, Open
  <2>2. Open(t)' /\ Pooled(t) => Pooled(t)' \/ t \in swept'
    <3> SUFFICES ASSUME Open(t)', NEW e \in Key, pool[e] = t, pool'[e] # t
                 PROVE  t \in swept'
      BY DEF Pooled
    <3>1. e = k /\ t # NoSession
      BY <1>1, NoSessionAssumption DEF NoSessionAssumption
    <3>2. t # cleaner.session
      BY <1>2, <3>1 DEF Open
    <3> QED
      BY <1>0, <3>1, <3>2
  <2> QED
    BY <1>0, <2>1, <2>2, StillAnswered DEF PoolInvariant
<1>5. \A e \in Key : pool'[e] \in Session => pool'[e] = pool[e]
  BY <1>1, NoSessionAssumption DEF NoSessionAssumption
<1> QED
  BY <1>0, <1>2, <1>3, <1>4, <1>5, Keeps

LEMMA InvalidateKeeps ==
  ASSUME PoolInvariant, NEW ks, Invalidate(ks)
  PROVE  PoolInvariant'
<1>0. /\ Types /\ Discard({k \in ks : pool[k] # NoSession})
      /\ UNCHANGED <<pooled, madeFor, pc, key, holds, swept>>
  BY DEF PoolInvariant, Invalidate, userVars, cleanerVars
<1>1. Types'
  BY <1>0, DiscardFacts DEF Types
<1>2. \A s \in Session : Answered(s)'
  BY <1>0, DiscardAnswers DEF Fresh, Polled
<1>3. /\ \A k \in Key : pool'[k] \in Session => pool'[k] = pool[k]
      /\ \A s \in Session : live[s] # "none" => live'[s] # "none"
  BY <1>0, DiscardFacts, NoSessionAssumption DEF NoSessionAssumption
<1> QED
  BY <1>0, <1>1, <1>2, <1>3, Keeps

LEMMA NetworkKeeps ==
  ASSUME PoolInvariant, NEW s \in Session, Disconnect(s)
  PROVE  PoolInvariant'
<1>0. /\ Types /\ live[s] = "open" /\ live' = [live EXCEPT ![s] = "lost"]
      /\ UNCHANGED <<pool, pooled, madeFor, pc, key, holds, swept>>
  BY DEF PoolInvariant, Disconnect, poolVars, userVars, cleanerVars
<1>1. /\ live' \in [Session -> Lives] /\ live'[s] = "lost"
      /\ \A t \in Session : t # s => live'[t] = live[t]
  BY <1>0 DEF Types, Lives
<1>2. Types'
  BY <1>0, <1>1 DEF Types
<1>3. \A t \in Session : Answered(t)'
  BY <1>0, <1>1, StillAnswered DEF PoolInvariant, Open, Pooled, Fresh, Polled
<1> QED
  BY <1>0, <1>1, <1>2, <1>3, Keeps

LEMMA NextPool == PoolInvariant /\ [Next]_vars => PoolInvariant'
<1> SUFFICES ASSUME PoolInvariant, [Next]_vars
             PROVE  PoolInvariant'
  OBVIOUS
<1>1. ASSUME NEW u \in User, Get(u) \/ Poll(u) \/ Release(u)
      PROVE  PoolInvariant'
  BY <1>1, FindKeeps, MovesKeep, RejectKeeps, CreateKeeps, InsertKeeps, ShrinkKeeps,
     TakeOutKeeps, FinishKeeps, ReadKeyKeeps, RepoolKeeps DEF Get, Poll, Release
<1>2. ASSUME UNCHANGED <<pool, sessionVars, userVars, swept>>
      PROVE  PoolInvariant'
  BY <1>2 DEF PoolInvariant, Types, HoldersHave, HeldExist, SessionsMatchKeys, Answered,
     Open, Pooled, Fresh, Polled, sessionVars, userVars
<1>3. CASE Look \/ CheckIdle \/ UNCHANGED vars \/ \E k \in Key : Age(k)
  BY <1>2, <1>3 DEF Look, CheckIdle, Age, vars, poolVars, cleanerVars
<1>4. CASE DropIdle
  BY <1>4, DropIdleKeeps
<1>5. CASE Invalidate(Key) \/ \E k \in Key : Invalidate({k})
  BY <1>5, InvalidateKeeps
<1>6. CASE \E s \in Session : Disconnect(s)
  BY <1>6, NetworkKeeps
<1> QED
  BY <1>1, <1>3, <1>4, <1>5, <1>6 DEF Next

-----------------------------------------------------------------------------
(* The theorems. *)

(* Accounts do not mix: whoever asks the pool for a session gets one that  *)
(* was created for that account, and every key of the pool has one of its  *)
(* own, however entries are evicted, taken out, given back and cleaned up. *)
THEOREM AccountsDoNotMix == Spec => []SessionsMatchKeys
<1>1. PoolInvariant => SessionsMatchKeys
  BY DEF PoolInvariant
<1> QED
  BY InitPool, NextPool, <1>1, PTL DEF Spec

(* No connection leaks, unless cleanup_stale dropped it unseen: an open    *)
(* session is in the pool, or with a user who will give it back or close   *)
(* it.                                                                     *)
THEOREM NoSessionForgotten == Spec => []NoneForgotten
<1>1. PoolInvariant => NoneForgotten
  BY DEF PoolInvariant, Answered, NoneForgotten, Open, Fresh, Polled, Held
<1> QED
  BY InitPool, NextPool, <1>1, PTL DEF Spec
=============================================================================
